---- MODULE Spec2Model ----
\* Verification model of the campus-usa-demo backend (server/).
\*
\* Part 1: the document pipeline.  A client asks for an upload handle
\* (request_upload_url), puts the object into the object store, confirms the
\* upload (confirm_upload), and a Celery chain
\*     process_document_ocr_task -> validate_document_task -> embed_document_task
\* runs on a worker pool.  The model keeps the relational Document rows, the
\* object store, the broker queue (a bag of task messages), the executions the
\* workers are in the middle of, and the vector index (a bag of point payloads).
\*
\* Part 2: profile chunk re-embedding jobs running concurrently against the
\* vector index.
EXTENDS Integers, Sequences, FiniteSets, Bags, TLC

\* ------------------------------------------------------------------ bounds
MaxWorkers == 1      \* worker processes pulling from the broker
MaxFaults  == 2      \* transient backend failures injected in one run
MaxJobs    == 2      \* profile re-embedding jobs of one run
MaxToggles == 4      \* toggle_save requests of one run
MaxContent == 3      \* characters of an essay's content
MaxPieces  == 3      \* pieces between the periods of a chunked text
MaxRuns    == 2      \* runs of equally long words of a chunked text
MaxRequests == 2     \* confirm_upload requests in progress at a time


\* the pipeline is followed for one document: every request and task reads and
\* writes only the row, the object and the points of the document it names
Docs    == {1}
MaxDocs == Cardinality(Docs)
\* the browser session of the document's owner: its confirm_upload requests
\* come one after the other
Clients    == {"owner"}
MaxClients == Cardinality(Clients)
Jobs    == 1..MaxJobs

\* ------------------------------------------------------- program constants
OCR_MAX_RETRIES        == 3
OCR_BASE_DELAY         == 60
VALIDATE_MAX_RETRIES   == 3
VALIDATE_TEXT_DELAY    == 30
VALIDATE_ERROR_DELAY   == 60
EMBED_MAX_RETRIES      == 3
EMBED_BASE_DELAY       == 60
MIN_TEXT_LEN           == 10

STATUS_CHOICES     == {"pending", "processing", "successful", "validation_failed", "error"}
OCR_STATUS_CHOICES == {"pending", "processing", "completed", "failed"}
DOCUMENT_TYPES     == {"i20", "transcript", "other"}

\* -------------------------------------------------------------- documents
\* extracted text is kept by what the code inspects: its raw length, the
\* length of the stripped text and the number of the declared type's patterns
\* it matches.  raw = -1 is the NULL column value.
Text(raw, len, m) == [raw |-> raw, len |-> len, m |-> m]
NullText == Text(-1, -1, 0)

\* contents a client can put into the object store: an unreadable file, a
\* 9-character one, and two long ones matching 4 and 5 patterns of the
\* declared type
Contents == {"corrupt", "short", "weak", "good"}

\* what the extractor makes of an object (DocumentOCRService)
extract_text_from_document(content) ==
    CASE content = "absent"  -> [success |-> FALSE, text |-> NullText]
      [] content = "corrupt" -> [success |-> FALSE, text |-> NullText]
      [] content = "short"   -> [success |-> TRUE,  text |-> Text(9, 9, 1)]
      [] content = "weak"    -> [success |-> TRUE,  text |-> Text(400, 400, 4)]
      [] OTHER               -> [success |-> TRUE,  text |-> Text(400, 400, 5)]

NoRow == [exists |-> FALSE, status |-> "pending", ocr_status |-> "pending",
          text |-> NullText, vpassed |-> "null", notes |-> "",
          dtype |-> "other", storage |-> "none"]

NewRow(dtype, storage, status) ==
    [NoRow EXCEPT !.exists = TRUE, !.status = status, !.dtype = dtype,
                  !.storage = storage]

\* Document.clean + field validation run by full_clean()
full_clean(row) ==
    /\ row.status \in STATUS_CHOICES
    /\ row.ocr_status \in OCR_STATUS_CHOICES
    /\ row.dtype \in DOCUMENT_TYPES
    /\ row.storage \in {"s3", "file"}

\* Document.save(): TRUE when the row is written, FALSE when full_clean raises
DocumentSaveMutant(row) == TRUE
DocumentSave(row) == full_clean(row)

\* ------------------------------------------------- structural validation
PatternCount(dtype) ==
    CASE dtype = "i20" -> 9 [] dtype = "transcript" -> 10 [] OTHER -> 0

\* confidence thresholds in tenths
Threshold10(dtype) ==
    CASE dtype = "i20" -> 5 [] dtype = "transcript" -> 4 [] OTHER -> 3

validate_doc_structureMutant(text, dtype) ==
    IF dtype = "other" THEN TRUE
    ELSE IF PatternCount(dtype) = 0 THEN TRUE
    ELSE text.m * 10 > Threshold10(dtype) * PatternCount(dtype)
validate_doc_structure(text, dtype) ==
    IF dtype = "other" THEN TRUE
    ELSE IF PatternCount(dtype) = 0 THEN TRUE
    ELSE text.m * 10 >= Threshold10(dtype) * PatternCount(dtype)

\* ------------------------------------------------------------ task layer
Pow2(n) == IF n = 0 THEN 1 ELSE IF n = 1 THEN 2 ELSE IF n = 2 THEN 4 ELSE 8

OcrRetryDelayMutant(retries) == OCR_BASE_DELAY
OcrRetryDelay(retries) == OCR_BASE_DELAY * Pow2(retries)

EmbedRetryDelay(retries) == EMBED_BASE_DELAY * Pow2(retries)

\* a task message: the countdown of a retry only delays its delivery and is
\* recorded in the outcome of the attempt that asked for it
Msg(task, d, retries, chain) ==
    [task |-> task, doc |-> d, retries |-> retries, chain |-> chain]

\* chain(ocr.si, validate.si, embed.si).delay(): the head goes to the broker
\* carrying the rest of the chain
PipelineChain(d) == Msg("ocr", d, 0, <<"validate", "embed">>)

Put(q, m) == q (+) SetToBag({m})
Take(q, m) == q (-) SetToBag({m})

\* the task returned: the worker sends the next signature of the chain
ChainNext(q, m) ==
    IF m.chain = <<>> THEN q
    ELSE Put(q, Msg(Head(m.chain), m.doc, 0, Tail(m.chain)))

\* self.retry(): the same signature is sent again, retries + 1
Retry(q, m) == Put(q, Msg(m.task, m.doc, m.retries + 1, m.chain))

VARIABLES
    docs,      \* Document rows by id
    issued,    \* number of document ids handed out so far
    objects,   \* object store: content under each document's key
    queue,     \* broker: bag of task messages
    running,   \* bag of task executions in progress, one per busy worker
    reqs,      \* bag of HTTP requests in progress
    points,    \* vector index: bag of point payloads
    faults,    \* transient failures still allowed to happen
    last,      \* outcome of the request or task attempt the last step finished
    jobs,      \* re-embedding jobs, commands and requests of one run, by id
    db         \* the other relational tables, by table name

vars == <<docs, issued, objects, queue, running, reqs, points, faults, last, jobs, db>>

NoOutcome == [op |-> "none", doc |-> 0, code |-> "none", retries |-> 0, delay |-> 0]
Outcome(op, d, code, retries, delay) ==
    [op |-> op, doc |-> d, code |-> code, retries |-> retries, delay |-> delay]


\* ---------------------------------------------------------------- state
\* the tables besides Document as registration leaves them: no RAGChunk row
\* (core/models.py), the User and UserProfile rows, the Preferences row with
\* its defaults (users/models.py), no SavedUniversity row and no Message
NoTables ==
    [rag      |-> {},
     user     |-> [first_name |-> "", email |-> "own"],
     profile  |-> [phone_number |-> ""],
     prefs    |-> [preferred_ranking_min |-> 0, preferred_ranking_max |-> 500,
                   fields_of_interest |-> "empty"],
     saved    |-> {},
     convs    |-> 0,
     messages |-> <<>>]

Init ==
    /\ docs = [d \in Docs |-> NoRow]
    /\ issued = 0
    /\ objects = [d \in Docs |-> "absent"]
    /\ queue = EmptyBag
    /\ running = EmptyBag
    /\ reqs = EmptyBag
    /\ points = EmptyBag
    /\ faults = MaxFaults
    /\ last = NoOutcome
    /\ jobs = {}
    /\ db = NoTables

InFlight(task, d) ==
    \/ \E m \in BagToSet(queue) : m.task = task /\ m.doc = d
    \/ \E e \in BagToSet(running) : e.msg.task = task /\ e.msg.doc = d

\* ------------------------------------------------- documents/views.py
\* types a client may declare: a real one and one outside the choices
DeclaredTypes == {"i20", "bogus"}

\* request_upload_url with well-formed fields: create the pending row, then
\* ask the storage service for the upload handle
RequestUploadUrl(dtype, handleOk) ==
    /\ issued < MaxDocs
    /\ handleOk \/ faults > 0
    /\ LET d   == issued + 1
           row == NewRow(dtype, "s3", "pending")
       IN IF ~DocumentSave(row)
          THEN /\ handleOk
               /\ last' = Outcome("request_upload_url", 0, "400", 0, 0)
               /\ UNCHANGED <<docs, issued, faults>>
          ELSE /\ docs' = [docs EXCEPT ![d] = row]
               /\ issued' = d
               /\ faults' = IF handleOk THEN faults ELSE faults - 1
               /\ last' = Outcome("request_upload_url", d,
                                  IF handleOk THEN "201" ELSE "500", 0, 0)
    /\ UNCHANGED <<objects, queue, running, reqs, points, jobs, db>>

\* request_upload_url rejecting a missing title, type or filename, an oversize
\* file or a forbidden extension: it returns before any row is created.  The
\* client makes its upload requests while it has documents left to declare.
RequestUploadUrlInvalid ==
    /\ issued < MaxDocs
    /\ last' = Outcome("request_upload_url", 0, "400", 0, 0)
    /\ UNCHANGED <<docs, issued, objects, queue, running, reqs, points, faults, jobs, db>>

\* the client pushes the bytes to the object store with the handle
ClientUpload(d, content) ==
    /\ docs[d].exists /\ docs[d].status = "pending" /\ docs[d].storage = "s3"
    /\ objects[d] = "absent"
    /\ objects' = [objects EXCEPT ![d] = content]
    /\ last' = NoOutcome
    /\ UNCHANGED <<docs, issued, queue, running, reqs, points, faults, jobs, db>>

\* confirm_upload, lines 155-160: get_object and the status check
ConfirmLoadAmong(d, n) ==
    /\ BagCardinality(reqs) < n
    /\ d \in 1..issued
    /\ IF ~docs[d].exists
       THEN /\ last' = Outcome("confirm_upload", d, "500", 0, 0)
            /\ UNCHANGED reqs
       ELSE IF docs[d].status # "pending"
       THEN /\ last' = Outcome("confirm_upload", d, "400", 0, 0)
            /\ UNCHANGED reqs
       ELSE /\ reqs' = Put(reqs, [doc |-> d, local |-> docs[d], pc |-> "loaded"])
            /\ last' = NoOutcome
    /\ UNCHANGED <<docs, issued, objects, queue, running, points, faults, jobs, db>>

\* the requests of the owner's browser session
ConfirmLoad(d) == ConfirmLoadAmong(d, MaxClients)

\* the storage lookup confirm_upload makes for the document's key
get_file_metadataMutant(d) == TRUE
get_file_metadata(d) == objects[d] # "absent"

\* confirm_upload, lines 162-175: storage lookup, then save as processing
ConfirmVerify ==
    \E r \in BagToSet(reqs) :
      /\ r.pc = "loaded"
      /\ IF ~get_file_metadata(r.doc)
         THEN /\ reqs' = Take(reqs, r)
              /\ last' = Outcome("confirm_upload", r.doc, "404", 0, 0)
              /\ UNCHANGED docs
         ELSE LET row == [r.local EXCEPT !.status = "processing"]
              IN /\ DocumentSave(row)
                 /\ docs' = [docs EXCEPT ![r.doc] = row]
                 /\ reqs' = Put(Take(reqs, r), [r EXCEPT !.local = row, !.pc = "saved"])
                 /\ last' = Outcome("confirm_upload", r.doc, "saved", 0, 0)
      /\ UNCHANGED <<issued, objects, queue, running, points, faults, jobs, db>>

\* confirm_upload, lines 180-214: send the chain; a broker failure marks the
\* document as error and the response is still 200
ConfirmSchedule(brokerOk) ==
    \E r \in BagToSet(reqs) :
      /\ r.pc = "saved"
      /\ brokerOk \/ faults > 0
      /\ reqs' = Take(reqs, r)
      /\ IF brokerOk
         THEN /\ queue' = Put(queue, PipelineChain(r.doc))
              /\ UNCHANGED <<docs, faults>>
         ELSE /\ docs' = [docs EXCEPT ![r.doc] = [r.local EXCEPT !.status = "error"]]
              /\ faults' = faults - 1
              /\ UNCHANGED queue
      /\ last' = Outcome("confirm_upload", r.doc, "200", 0, 0)
      /\ UNCHANGED <<issued, objects, running, points, jobs, db>>

\* create(): legacy direct upload with a valid inline file; the row is saved
\* with status 'completed'
LegacyCreate(dtype) ==
    /\ issued < MaxDocs
    /\ dtype \in DOCUMENT_TYPES
    /\ LET d   == issued + 1
           row == NewRow(dtype, "file", "completed")
       IN IF DocumentSave(row)
          THEN /\ docs' = [docs EXCEPT ![d] = row]
               /\ issued' = d
               /\ last' = Outcome("create", d, "201", 0, 0)
          ELSE /\ last' = Outcome("create", 0, "400", 0, 0)
               /\ UNCHANGED <<docs, issued>>
    /\ UNCHANGED <<objects, queue, running, reqs, points, faults, jobs, db>>

\* DocumentProcessingService.process_document, the synchronous pipeline.  No
\* view or task calls it; it is applied to a stored document that has not been
\* processed yet and whose upload is not being confirmed.
ProcessDocument(d) ==
    /\ docs[d].exists /\ docs[d].status = "pending"
    /\ ~\E r \in BagToSet(reqs) : r.doc = d
    /\ LET r1  == [docs[d] EXCEPT !.status = "processing"]
           ocr == extract_text_from_document(objects[d])
           r2  == [r1 EXCEPT !.status = "completed"]
           r3  == [r1 EXCEPT !.status = "error"]
       IN /\ DocumentSave(r1)
          /\ IF ~ocr.success
             THEN /\ docs' = [docs EXCEPT ![d] = r3]
                  /\ last' = Outcome("process_document", d, "ocr_failed", 0, 0)
             ELSE IF DocumentSave(r2)
             THEN /\ docs' = [docs EXCEPT ![d] = r2]
                  /\ last' = Outcome("process_document", d, "completed", 0, 0)
             ELSE /\ docs' = [docs EXCEPT ![d] = r3]
                  /\ last' = Outcome("process_document", d, "processing_failed", 0, 0)
    /\ UNCHANGED <<issued, objects, queue, running, reqs, points, faults, jobs, db>>

\* EmbeddingService.delete_document_embeddings: filter delete by document_id
delete_document_embeddings(pts, d) ==
    LET keep == {p \in BagToSet(pts) : ~(p.type = "document" /\ p.doc = d)}
    IN [p \in keep |-> pts[p]]

\* destroy() and Document.delete(): the storage object and the row go away;
\* the purge of the vector points is best effort (purgeOk = FALSE is a failed
\* delete request, logged and passed over).  No RAGChunk row is touched.
Destroy(d, purgeOk) ==
    /\ docs[d].exists
    /\ purgeOk \/ faults > 0
    /\ faults' = IF purgeOk THEN faults ELSE faults - 1
    /\ objects' = [objects EXCEPT ![d] = "absent"]
    /\ points' = IF purgeOk THEN delete_document_embeddings(points, d) ELSE points
    /\ docs' = [docs EXCEPT ![d] = NoRow]
    /\ last' = Outcome("destroy", d, "204", 0, 0)
    /\ UNCHANGED <<issued, queue, running, reqs, jobs, db>>


\* ------------------------------------------------- core/tasks/ocr_tasks.py
\* a worker process is free to take a message
WorkerFree == BagCardinality(running) < MaxWorkers

\* an execution in progress: the message and the row the task fetched
Exec(m, row) == [msg |-> m, local |-> row]

\* the generic handler of process_document_ocr_task (lines 61-79): mark the
\* row failed when it can be fetched, then retry with backoff or, with the
\* retries used up, return the failure dict (to Celery an ordinary return,
\* so the rest of the chain is sent)
OcrExceptMutant(D, q, m) ==
    [docs  |-> IF D[m.doc].exists
               THEN [D EXCEPT ![m.doc].ocr_status = "failed"] ELSE D,
     queue |-> IF m.retries < OCR_MAX_RETRIES THEN Retry(q, m) ELSE q,
     last  |-> IF m.retries < OCR_MAX_RETRIES
               THEN Outcome("ocr", m.doc, "retry", m.retries, OcrRetryDelay(m.retries))
               ELSE Outcome("ocr", m.doc, "failure", m.retries, 0)]
OcrExcept(D, q, m) ==
    [docs  |-> IF D[m.doc].exists
               THEN [D EXCEPT ![m.doc].ocr_status = "failed"] ELSE D,
     queue |-> IF m.retries < OCR_MAX_RETRIES
               THEN Retry(q, m)
               ELSE ChainNext(q, m),
     last  |-> IF m.retries < OCR_MAX_RETRIES
               THEN Outcome("ocr", m.doc, "retry", m.retries, OcrRetryDelay(m.retries))
               ELSE Outcome("ocr", m.doc, "failure", m.retries, 0)]

\* a worker takes an OCR message and fetches the document
OcrStart ==
    \E m \in BagToSet(queue) :
      /\ m.task = "ocr" /\ WorkerFree
      /\ IF docs[m.doc].exists
         THEN /\ running' = Put(running, Exec(m, docs[m.doc]))
              /\ queue' = Take(queue, m)
              /\ last' = NoOutcome
              /\ UNCHANGED docs
         ELSE LET x == OcrExcept(docs, Take(queue, m), m)
              IN /\ docs' = x.docs /\ queue' = x.queue /\ last' = x.last
                 /\ UNCHANGED running
      /\ UNCHANGED <<issued, objects, reqs, points, faults, jobs, db>>

\* extraction and the rest of the attempt; fetchOk = FALSE is a transient
\* failure to retrieve the content
OcrFinish(fetchOk) ==
    \E e \in BagToSet(running) :
      /\ e.msg.task = "ocr"
      /\ fetchOk \/ faults > 0
      /\ LET m   == e.msg
             d   == m.doc
             res == extract_text_from_document(objects[d])
             ok  == fetchOk /\ res.success
             \* save(update_fields=...) writes the named columns of the row
             Dok == [docs EXCEPT ![d].text = res.text, ![d].ocr_status = "completed"]
             Dko == [docs EXCEPT ![d].ocr_status = "failed"]
             x   == OcrExcept(IF docs[d].exists /\ ~ok THEN Dko ELSE docs, queue, m)
         IN /\ running' = Take(running, e)
            /\ faults' = IF fetchOk THEN faults ELSE faults - 1
            /\ IF ok /\ docs[d].exists
               THEN /\ docs' = Dok
                    /\ queue' = ChainNext(queue, m)
                    /\ last' = Outcome("ocr", d, "success", m.retries, 0)
               ELSE /\ docs' = x.docs /\ queue' = x.queue /\ last' = x.last
      /\ UNCHANGED <<issued, objects, reqs, points, jobs, db>>

\* ------------------------------------------ core/tasks/validation_tasks.py
\* line 26: no usable OCR text
TextMissing(text) == text.raw <= 0 \/ text.len < MIN_TEXT_LEN

\* the generic handler of validate_document_task (lines 91-112): fetch the row
\* again, mark it error, then retry after 60 s or return the error dict
ValidateExceptOnce(D, q, m) ==
    [docs  |-> IF D[m.doc].exists
               THEN [D EXCEPT ![m.doc].status = "error",
                              ![m.doc].notes = "validation error"]
               ELSE D,
     queue |-> IF m.retries < 1 THEN Retry(q, m) ELSE ChainNext(q, m),
     last  |-> IF m.retries < 1
               THEN Outcome("validate", m.doc, "retry", m.retries, VALIDATE_ERROR_DELAY)
               ELSE Outcome("validate", m.doc, "failure", m.retries, 0)]
ValidateExcept(D, q, m) ==
    [docs  |-> IF D[m.doc].exists
               THEN [D EXCEPT ![m.doc].status = "error",
                              ![m.doc].notes = "validation error"]
               ELSE D,
     queue |-> IF m.retries < VALIDATE_MAX_RETRIES
               THEN Retry(q, m)
               ELSE ChainNext(q, m),
     last  |-> IF m.retries < VALIDATE_MAX_RETRIES
               THEN Outcome("validate", m.doc, "retry", m.retries, VALIDATE_ERROR_DELAY)
               ELSE Outcome("validate", m.doc, "failure", m.retries, 0)]

\* a worker takes a validation message and fetches the document; a missing
\* row is reported and the task returns
ValidateStart ==
    \E m \in BagToSet(queue) :
      /\ m.task = "validate" /\ WorkerFree
      /\ IF docs[m.doc].exists
         THEN /\ running' = Put(running, Exec(m, docs[m.doc]))
              /\ queue' = Take(queue, m)
              /\ last' = NoOutcome
         ELSE /\ queue' = ChainNext(Take(queue, m), m)
              /\ last' = Outcome("validate", m.doc, "not_found", m.retries, 0)
              /\ UNCHANGED running
      /\ UNCHANGED <<docs, issued, objects, reqs, points, faults, jobs, db>>

\* the text check, the structural validation and the save; saveOk = FALSE is
\* a transient database failure at the save of the result
ValidateFinish(saveOk) ==
    \E e \in BagToSet(running) :
      /\ e.msg.task = "validate"
      /\ saveOk \/ (faults > 0 /\ ~TextMissing(e.local.text))
      /\ LET m     == e.msg
             d     == m.doc
             valid == validate_doc_structure(e.local.text, e.local.dtype)
             \* line 30: self.retry sends the retry, and the Retry it raises
             \* is an Exception caught by the generic handler
             early == ValidateExcept(docs, Retry(queue, m), m)
             \* lines 33-39: save the loaded row as error, then raise
             gave  == ValidateExcept(
                        [docs EXCEPT ![d] = [e.local EXCEPT !.status = "error",
                                                            !.notes = "no text content found"]],
                        queue, m)
             row   == [e.local EXCEPT
                         !.vpassed = IF valid THEN "true" ELSE "false",
                         !.notes = "validation result",
                         !.status = IF valid THEN "successful" ELSE "validation_failed"]
             blip  == ValidateExcept(docs, queue, m)
         IN /\ running' = Take(running, e)
            /\ faults' = IF saveOk THEN faults ELSE faults - 1
            /\ IF TextMissing(e.local.text)
               THEN IF m.retries < VALIDATE_MAX_RETRIES
                    THEN /\ docs' = early.docs /\ queue' = early.queue
                         /\ last' = early.last
                    ELSE /\ docs' = gave.docs /\ queue' = gave.queue
                         /\ last' = gave.last
               ELSE IF saveOk /\ DocumentSave(row)
                    THEN /\ docs' = [docs EXCEPT ![d] = row]
                         /\ queue' = ChainNext(queue, m)
                         /\ last' = Outcome("validate", d, "success", m.retries, 0)
                    ELSE /\ docs' = blip.docs /\ queue' = blip.queue
                         /\ last' = blip.last
      /\ UNCHANGED <<issued, objects, reqs, points, jobs, db>>


\* ------------------------------------------- core/tasks/embedding_tasks.py
\* a point of the vector index, by what its payload and origin tell: type,
\* document id and chunk index (document points), chunk type (profile
\* points) and the job that wrote it.  Ids are fresh uuids, so equal
\* payloads are distinct points: the index is a bag.
Point(type, d, idx, ctype, writer) ==
    [user |-> "owner", type |-> type, doc |-> d, idx |-> idx, ctype |-> ctype,
     writer |-> writer]

\* _extract_and_chunk_document: the number of chunks the document yields.
\* Without extracted text the title sentence is used (one chunk); text of
\* blanks only yields none; the texts of Contents fit in one chunk.
NumChunks(text) ==
    IF text.raw <= 0 THEN 1
    ELSE IF text.len = 0 THEN 0
    ELSE 1

\* store_document_embeddings: one point with a fresh id per chunk
DocumentPoints(d, n) == [p \in {Point("document", d, i, "none", 0) : i \in 0..(n - 1)} |-> 1]

\* the generic handler of embed_document_task (lines 309-324)
EmbedExcept(q, m) ==
    [queue |-> IF m.retries < EMBED_MAX_RETRIES
               THEN Retry(q, m)
               ELSE ChainNext(q, m),
     last  |-> IF m.retries < EMBED_MAX_RETRIES
               THEN Outcome("embed", m.doc, "retry", m.retries, EmbedRetryDelay(m.retries))
               ELSE Outcome("embed", m.doc, "failure", m.retries, 0)]

\* a worker takes an embedding message, gets the embedding service and
\* fetches the document; serviceOk = FALSE is an unavailable service
EmbedStart(serviceOk) ==
    \E m \in BagToSet(queue) :
      /\ m.task = "embed" /\ WorkerFree
      /\ serviceOk \/ faults > 0
      /\ faults' = IF serviceOk THEN faults ELSE faults - 1
      /\ IF serviceOk /\ docs[m.doc].exists
         THEN /\ running' = Put(running, Exec(m, docs[m.doc]))
              /\ queue' = Take(queue, m)
              /\ last' = NoOutcome
         ELSE LET x == EmbedExcept(Take(queue, m), m)
              IN /\ queue' = x.queue /\ last' = x.last
                 /\ UNCHANGED running
      /\ UNCHANGED <<docs, issued, objects, reqs, points, jobs, db>>

\* chunking, the upsert into the vector index and document.save();
\* storeOk = FALSE is a failed embedding call or upsert
EmbedFinish(storeOk) ==
    \E e \in BagToSet(running) :
      /\ e.msg.task = "embed"
      /\ LET m == e.msg
             d == m.doc
             n == NumChunks(e.local.text)
             x == EmbedExcept(queue, m)
         IN /\ storeOk \/ (faults > 0 /\ n > 0)
            /\ running' = Take(running, e)
            /\ faults' = IF storeOk THEN faults ELSE faults - 1
            /\ IF n = 0
               THEN /\ queue' = ChainNext(queue, m)
                    /\ last' = Outcome("embed", d, "no_content", m.retries, 0)
                    /\ UNCHANGED <<docs, points>>
               ELSE IF storeOk /\ DocumentSave(e.local)
               THEN /\ points' = points (+) DocumentPoints(d, n)
                    /\ docs' = [docs EXCEPT ![d] = e.local]
                    /\ queue' = ChainNext(queue, m)
                    /\ last' = Outcome("embed", d, "success", m.retries, 0)
               ELSE /\ queue' = x.queue /\ last' = x.last
                    /\ UNCHANGED <<docs, points>>
      /\ UNCHANGED <<issued, objects, reqs, jobs, db>>

\* ------------------------- core/services/embedding_service.py, profile chunks
\* ProfileChunker.CHUNK_TYPES
CHUNK_TYPES == {"basic_personal", "application_prefs", "high_school", "test_scores",
                "profile_summary", "score_narrative", "academic_standing",
                "university_match"}

\* the chunk type lists of the three convenience tasks (embedding_tasks.py)
BasicInfoTypes   == <<"basic_personal", "profile_summary">>
AcademicTypes    == <<"high_school", "test_scores", "profile_summary",
                      "score_narrative", "academic_standing", "university_match">>
PreferencesTypes == <<"application_prefs", "profile_summary", "university_match">>
UpdateLists      == {BasicInfoTypes, AcademicTypes, PreferencesTypes}

\* generate_all_chunks keeps the chunk types whose text is not empty: all of
\* them for a filled-in profile, the username line alone for a bare one
GeneratedOptions == {CHUNK_TYPES, {"basic_personal"}}

Range(seq) == {seq[i] : i \in 1..Len(seq)}

\* _clear_user_chunk_type: filter delete of one chunk type of the user
clear_user_chunk_typeMutant(pts, user, ctype) ==
    LET keep == {p \in BagToSet(pts) : ~(p.type = "profile_chunk" /\ p.ctype = ctype)}
    IN [p \in keep |-> pts[p]]
clear_user_chunk_type(pts, user, ctype) ==
    LET keep == {p \in BagToSet(pts) :
                   ~(p.user = user /\ p.type = "profile_chunk" /\ p.ctype = ctype)}
    IN [p \in keep |-> pts[p]]

\* _clear_user_profile_chunks: filter delete of all profile chunks of the user
clear_user_profile_chunks(pts, user) ==
    LET keep == {p \in BagToSet(pts) : ~(p.user = user /\ p.type = "profile_chunk")}
    IN [p \in keep |-> pts[p]]

\* the points of one upsert: one per chunk, each with a fresh id
ProfilePoints(user, types, j) ==
    [p \in {[Point("profile_chunk", 0, 0, t, j) EXCEPT !.user = user] : t \in types} |-> 1]

\* a re-embedding job: the chunk types asked for (update jobs), the chunk
\* types generated, its position, whether it began after every earlier job
\* had finished, whether its delete requests all went through, and whether
\* its upsert did
Job(j, user, kind, types, gen, pc) ==
    [id |-> j, user |-> user, kind |-> kind, types |-> types, gen |-> gen, pc |-> pc,
     seq |-> \A o \in jobs : o.pc = Len(o.types) + 2,
     cleared |-> TRUE, stored |-> FALSE]

\* update_specific_profile_chunks, lines 537-546: generate the chunks and
\* keep the requested ones; nothing to update ends the call
UpdateBegin(types, gen) ==
    /\ Cardinality(jobs) < MaxJobs
    /\ LET j == Cardinality(jobs) + 1
       IN jobs' = jobs \cup {Job(j, "owner", "update", types, gen \cap Range(types),
                                 IF gen \cap Range(types) = {} THEN Len(types) + 2 ELSE 1)}
    /\ UNCHANGED <<docs, issued, objects, queue, running, reqs, points, faults, last, db>>

\* lines 549-550: one delete request per requested chunk type, in list order;
\* _clear_user_chunk_type logs a failed request and goes on
UpdateClear(j, ok) ==
    \E job \in jobs :
      /\ job.id = j /\ job.kind = "update" /\ job.pc \in 1..Len(job.types)
      /\ ok \/ faults > 0
      /\ faults' = IF ok THEN faults ELSE faults - 1
      /\ points' = IF ok THEN clear_user_chunk_type(points, job.user, job.types[job.pc])
                   ELSE points
      /\ jobs' = (jobs \ {job}) \cup {[job EXCEPT !.pc = job.pc + 1,
                                                  !.cleared = job.cleared /\ ok]}
      /\ UNCHANGED <<docs, issued, objects, queue, running, reqs, last, db>>

\* lines 553-592: embed the chunks and upsert them in one batch; a failed
\* embedding call or upsert is swallowed and nothing is written
UpdateUpsert(j, ok) ==
    \E job \in jobs :
      /\ job.id = j /\ job.kind = "update" /\ job.pc = Len(job.types) + 1
      /\ ok \/ faults > 0
      /\ faults' = IF ok THEN faults ELSE faults - 1
      /\ points' = IF ok THEN points (+) ProfilePoints(job.user, job.gen, j) ELSE points
      /\ jobs' = (jobs \ {job}) \cup {[job EXCEPT !.pc = job.pc + 1, !.stored = ok]}
      /\ UNCHANGED <<docs, issued, objects, queue, running, reqs, last, db>>

\* store_chunked_profile_embeddings, line 466: clear all profile chunks of
\* the user; _clear_user_profile_chunks logs a failed request and goes on
FullBegin(gen, ok) ==
    /\ Cardinality(jobs) < MaxJobs
    /\ ok \/ faults > 0
    /\ faults' = IF ok THEN faults ELSE faults - 1
    /\ LET j == Cardinality(jobs) + 1
       IN jobs' = jobs \cup {[Job(j, "owner", "full", <<>>, gen, 1) EXCEPT !.cleared = ok]}
    /\ points' = IF ok THEN clear_user_profile_chunks(points, "owner") ELSE points
    /\ UNCHANGED <<docs, issued, objects, queue, running, reqs, last, db>>

\* lines 469-522: generate, embed and upsert the whole chunk set
FullUpsert(j, ok) ==
    \E job \in jobs :
      /\ job.id = j /\ job.kind = "full" /\ job.pc = 1
      /\ ok \/ faults > 0
      /\ faults' = IF ok THEN faults ELSE faults - 1
      /\ points' = IF ok THEN points (+) ProfilePoints(job.user, job.gen, j) ELSE points
      /\ jobs' = (jobs \ {job}) \cup {[job EXCEPT !.pc = 2, !.stored = ok]}
      /\ UNCHANGED <<docs, issued, objects, queue, running, reqs, last, db>>

JobDone(job) == job.pc = Len(job.types) + 2

NextProfile ==
    \/ \E l \in UpdateLists, g \in GeneratedOptions : UpdateBegin(l, g)
    \/ \E j \in Jobs, ok \in BOOLEAN : UpdateClear(j, ok)
    \/ \E j \in Jobs, ok \in BOOLEAN : UpdateUpsert(j, ok)
    \/ \E g \in GeneratedOptions, ok \in BOOLEAN : FullBegin(g, ok)
    \/ \E j \in Jobs, ok \in BOOLEAN : FullUpsert(j, ok)

\* the jobs are the owner's; the collection already holds the profile chunks
\* of another user, stored by an earlier full embedding
InitProfile ==
    /\ docs = [d \in Docs |-> NoRow]
    /\ issued = 0
    /\ objects = [d \in Docs |-> "absent"]
    /\ queue = EmptyBag
    /\ running = EmptyBag
    /\ reqs = EmptyBag
    /\ points = ProfilePoints("other", CHUNK_TYPES, 0)
    /\ faults = MaxFaults
    /\ last = NoOutcome
    /\ jobs = {}
    /\ db = NoTables

SpecProfile == InitProfile /\ [][NextProfile]_vars

\* ------------------------------------------ documents that are processed
\* RAGChunk rows of a document: id doc_<document>_chunk_<i>, the user, chunk
\* type 'document' and metadata.document_id
RagRow(user, ctype, d, idx) == [user |-> user, chunk_type |-> ctype, doc |-> d, idx |-> idx]

\* _create_document_chunks: nothing under 50 characters of type, title and
\* text, one chunk up to 1000 (titles are short, the texts of Contents are
\* 9 or 400 characters long)
RagNumChunks(text) == IF text.raw >= 50 THEN 1 ELSE 0

\* RAGService.embed_document through RAGDocumentView.post: in one
\* transaction the document's rows are deleted and the new ones created; the
\* return on an empty chunk list leaves the block normally, so the deletion
\* is committed
RAGDocumentViewPost(d) ==
    /\ docs[d].exists
    /\ LET kept == {r \in db.rag : ~(r.user = "owner" /\ r.chunk_type = "document" /\ r.doc = d)}
           n    == RagNumChunks(docs[d].text)
       IN /\ db' = [db EXCEPT !.rag = kept \cup {RagRow("owner", "document", d, i) : i \in 0..(n - 1)}]
          /\ db' # db
          /\ last' = Outcome("rag_document", d, IF n > 0 THEN "200" ELSE "400", 0, 0)
    /\ UNCHANGED <<docs, issued, objects, queue, running, reqs, points, faults, jobs>>

\* batch_process_ocr_task for one listed document: the text is extracted
\* again and saved, and embed_document_task.delay sends a message of its
\* own; fetchOk = FALSE is a failed download
BatchProcessOcr(d, fetchOk) ==
    /\ docs[d].exists
    /\ Cardinality(jobs) < MaxJobs
    /\ fetchOk \/ faults > 0
    /\ faults' = IF fetchOk THEN faults ELSE faults - 1
    /\ jobs' = jobs \cup {Job(Cardinality(jobs) + 1, "owner", "batch", <<>>, {}, 2)}
    /\ LET res == IF fetchOk THEN extract_text_from_document(objects[d])
                  ELSE [success |-> FALSE, text |-> NullText]
           row == IF res.success
                  THEN [docs[d] EXCEPT !.text = res.text, !.ocr_status = "completed"]
                  ELSE [docs[d] EXCEPT !.ocr_status = "failed"]
       IN /\ docs' = IF DocumentSave(row) THEN [docs EXCEPT ![d] = row] ELSE docs
          /\ queue' = IF res.success /\ DocumentSave(row)
                      THEN Put(queue, Msg("embed", d, 0, <<>>))
                      ELSE queue
          /\ last' = Outcome("batch_ocr", d,
                             IF res.success /\ DocumentSave(row) THEN "success" ELSE "failed", 0, 0)
    /\ UNCHANGED <<issued, objects, running, reqs, points, db>>

\* a document the pipeline has finished: text extracted, validated, and its
\* chunk in the vector index
StoredRow(content) ==
    LET text == extract_text_from_document(content).text
        ok   == validate_doc_structure(text, "i20")
    IN [NewRow("i20", "s3", IF ok THEN "successful" ELSE "validation_failed") EXCEPT
          !.ocr_status = "completed", !.text = text,
          !.vpassed = IF ok THEN "true" ELSE "false", !.notes = "validation result"]

InitStored ==
    /\ \E k \in {"weak", "good"} :
         /\ docs = [d \in Docs |-> StoredRow(k)]
         /\ objects = [d \in Docs |-> k]
    /\ issued = MaxDocs
    /\ queue = EmptyBag
    /\ running = EmptyBag
    /\ reqs = EmptyBag
    /\ points = DocumentPoints(1, 1)
    /\ faults = MaxFaults
    /\ last = Outcome("embed", 1, "success", 0, 0)
    /\ jobs = {}
    /\ db = NoTables

NextStored ==
    \/ \E d \in Docs, ok \in BOOLEAN : BatchProcessOcr(d, ok)
    \/ \E d \in Docs : RAGDocumentViewPost(d)
    \/ \E ok \in BOOLEAN : EmbedStart(ok)
    \/ \E ok \in BOOLEAN : EmbedFinish(ok)
    \/ \E d \in Docs, ok \in BOOLEAN : Destroy(d, ok)

SpecStored == InitStored /\ [][NextStored]_vars

\* ------------------------------------- relational chunk store (RAGChunk)
\* the profile chunk of a user, id profile_<user>
ProfileRow(user) == RagRow(user, "profile", 0, 0)

\* RAGService.embed_user_profile: in one transaction the user's profile
\* chunk is deleted and created again; embedOk = FALSE is a failed embedding
\* call, which rolls that transaction back
embed_user_profile(rag, user, embedOk) ==
    IF embedOk
    THEN {r \in rag : ~(r.user = user /\ r.chunk_type = "profile")} \cup {ProfileRow(user)}
    ELSE rag

\* RAGService.embed_document on a table
embed_document(rag, user, d) ==
    {r \in rag : ~(r.user = user /\ r.chunk_type = "document" /\ r.doc = d)}
      \cup {RagRow(user, "document", d, i) : i \in 0..(RagNumChunks(docs[d].text) - 1)}

\* the documents both commands rebuild: Document.objects.filter(status='completed')
RebuiltDocuments == {d \in Docs : docs[d].exists /\ docs[d].status = "completed"}

RECURSIVE embed_documents(_, _, _)
embed_documents(rag, user, ds) ==
    IF ds = {} THEN rag
    ELSE LET d == CHOOSE x \in ds : TRUE
         IN embed_documents(embed_document(rag, user, d), user, ds \ {d})

\* RAGProfileView.post
RAGProfileViewPost(embedOk) ==
    /\ embedOk \/ faults > 0
    /\ faults' = IF embedOk THEN faults ELSE faults - 1
    /\ db' = [db EXCEPT !.rag = embed_user_profile(db.rag, "owner", embedOk)]
    /\ db' # db \/ ~embedOk
    /\ last' = Outcome("rag_profile", 0, IF embedOk THEN "200" ELSE "400", 0, 0)
    /\ UNCHANGED <<docs, issued, objects, queue, running, reqs, points, jobs>>

\* clean_rebuild, Command.handle: the command enters transaction.atomic();
\* what it does inside is not visible to others before the block is left
CleanRebuildBegin ==
    /\ Cardinality(jobs) < MaxJobs
    /\ jobs' = jobs \cup {Job(Cardinality(jobs) + 1, "owner", "clean_rebuild", <<>>, {}, 0)}
    /\ last' = NoOutcome
    /\ UNCHANGED <<docs, issued, objects, queue, running, reqs, points, faults, db>>

\* the block is left: the deletion of the user's rows, the profile chunk
\* (a failure of embed_user_profile is reported and passed over) and the
\* chunks of the documents with status 'completed' are committed together
CleanRebuildCommit(j, embedOk) ==
    \E job \in jobs :
      /\ job.id = j /\ job.kind = "clean_rebuild" /\ job.pc = 0
      /\ embedOk \/ faults > 0
      /\ faults' = IF embedOk THEN faults ELSE faults - 1
      /\ LET cleared == {r \in db.rag : r.user # job.user}
             profile == embed_user_profile(cleared, job.user, embedOk)
         IN db' = [db EXCEPT !.rag = embed_documents(profile, job.user, RebuiltDocuments)]
      /\ jobs' = (jobs \ {job}) \cup {[job EXCEPT !.pc = 2, !.stored = embedOk]}
      /\ last' = Outcome("clean_rebuild", 0, "done", 0, 0)
      /\ UNCHANGED <<docs, issued, objects, queue, running, reqs, points>>

\* clear_and_rebuild, Command._rebuild_user, lines 50-52: the deletion of
\* the user's rows, a statement of its own, committed at once
ClearAndRebuildDelete ==
    /\ Cardinality(jobs) < MaxJobs
    /\ jobs' = jobs \cup {Job(Cardinality(jobs) + 1, "owner", "clear_and_rebuild", <<>>, {}, 0)}
    /\ db' = [db EXCEPT !.rag = {r \in db.rag : r.user # "owner"}]
    /\ last' = NoOutcome
    /\ UNCHANGED <<docs, issued, objects, queue, running, reqs, points, faults>>

\* lines 54-60: the profile chunk
ClearAndRebuildProfile(j, embedOk) ==
    \E job \in jobs :
      /\ job.id = j /\ job.kind = "clear_and_rebuild" /\ job.pc = 0
      /\ embedOk \/ faults > 0
      /\ faults' = IF embedOk THEN faults ELSE faults - 1
      /\ db' = [db EXCEPT !.rag = embed_user_profile(db.rag, job.user, embedOk)]
      /\ jobs' = (jobs \ {job}) \cup {[job EXCEPT !.pc = 1, !.stored = embedOk]}
      /\ last' = NoOutcome
      /\ UNCHANGED <<docs, issued, objects, queue, running, reqs, points>>

\* lines 62-75: the documents with status 'completed', and the final count
ClearAndRebuildDocuments(j) ==
    \E job \in jobs :
      /\ job.id = j /\ job.kind = "clear_and_rebuild" /\ job.pc = 1
      /\ db' = [db EXCEPT !.rag = embed_documents(db.rag, job.user, RebuiltDocuments)]
      /\ jobs' = (jobs \ {job}) \cup {[job EXCEPT !.pc = 2]}
      /\ last' = Outcome("clear_and_rebuild", 0, "done", 0, 0)
      /\ UNCHANGED <<docs, issued, objects, queue, running, reqs, points, faults>>

\* a user with a processed document whose profile and document are in the
\* chunk table, and another user's profile chunk
InitRebuild ==
    /\ \E k \in {"weak", "good"} :
         /\ docs = [d \in Docs |-> StoredRow(k)]
         /\ objects = [d \in Docs |-> k]
    /\ issued = MaxDocs
    /\ queue = EmptyBag
    /\ running = EmptyBag
    /\ reqs = EmptyBag
    /\ points = DocumentPoints(1, 1)
    /\ faults = MaxFaults
    /\ last = Outcome("rag_document", 1, "200", 0, 0)
    /\ jobs = {}
    /\ db = [NoTables EXCEPT !.rag = {ProfileRow("owner"), ProfileRow("other"),
                                      RagRow("owner", "document", 1, 0)}]

NextRebuild ==
    \/ CleanRebuildBegin
    \/ \E j \in Jobs, ok \in BOOLEAN : CleanRebuildCommit(j, ok)
    \/ ClearAndRebuildDelete
    \/ \E j \in Jobs, ok \in BOOLEAN : ClearAndRebuildProfile(j, ok)
    \/ \E j \in Jobs : ClearAndRebuildDocuments(j)
    \/ \E ok \in BOOLEAN : RAGProfileViewPost(ok)
    \/ \E d \in Docs : RAGDocumentViewPost(d)

SpecRebuild == InitRebuild /\ [][NextRebuild]_vars

\* ------------------------------------------- documents under validation
\* the row and the broker after process_document_ocr_task has succeeded for
\* an uploaded document: the text is saved and the validation message sent
InitValidate ==
    /\ \E k \in {"short", "weak", "good"}, t \in DOCUMENT_TYPES :
         /\ docs = [d \in Docs |->
                      [NewRow(t, "s3", "processing") EXCEPT
                         !.text = extract_text_from_document(k).text,
                         !.ocr_status = "completed"]]
         /\ objects = [d \in Docs |-> k]
    /\ issued = MaxDocs
    /\ queue = SetToBag({Msg("validate", 1, 0, <<"embed">>)})
    /\ running = EmptyBag
    /\ reqs = EmptyBag
    /\ points = EmptyBag
    /\ faults = MaxFaults
    /\ last = Outcome("ocr", 1, "success", 0, 0)
    /\ jobs = {}
    /\ db = NoTables

NextValidate ==
    \/ ValidateStart
    \/ \E ok \in BOOLEAN : ValidateFinish(ok)
    \/ \E ok \in BOOLEAN : EmbedStart(ok)
    \/ \E ok \in BOOLEAN : EmbedFinish(ok)

SpecValidate == InitValidate /\ [][NextValidate]_vars

\* ---------------------------------------------------------- users/views.py
\* what a profile edit can carry ("none": the key is absent): a first name,
\* an e-mail address that is new or already in use by another account, and
\* a phone number within or over the 20 characters of the column.  last_name
\* is handled like first_name and avatar like phone_number.
ProfileData ==
    [first_name : {"none", "Ann"}, email : {"none", "new", "taken"},
     phone_number : {"none", "555", "toolong"}]

\* UserUpdateSerializer.is_valid: validate_email rejects an address in use
UserUpdateValid(data) == data.email # "taken"
\* ProfileUpdateSerializer.is_valid: the model field's max_length
ProfileUpdateValid(data) == data.phone_number # "toolong"

\* a partial save: the keys present overwrite the row's columns
Merge(row, data) ==
    [k \in DOMAIN row |-> IF data[k] = "none" THEN row[k] ELSE data[k]]

\* ProfileView.update: the user fields are validated and saved, then the
\* profile fields; the first invalid group ends the request with 400.  A
\* change schedules update_basic_info_chunks_task.
ProfileUpdate(data) ==
    /\ BagCardinality(queue) < MaxJobs
    /\ LET user_fields    == data.first_name # "none" \/ data.email # "none"
           profile_fields == data.phone_number # "none"
           user1 == IF user_fields /\ UserUpdateValid(data)
                    THEN Merge(db.user, data) ELSE db.user
       IN IF user_fields /\ ~UserUpdateValid(data)
          THEN /\ last' = Outcome("profile_update", 0, "400 user validation failed", 0, 0)
               /\ UNCHANGED <<db, queue>>
          ELSE IF profile_fields /\ ~ProfileUpdateValid(data)
          THEN /\ db' = [db EXCEPT !.user = user1]
               /\ last' = Outcome("profile_update", 0, "400 profile validation failed", 0, 0)
               /\ UNCHANGED queue
          ELSE /\ db' = [db EXCEPT !.user = user1,
                                   !.profile = Merge(db.profile, data)]
               /\ queue' = IF user_fields \/ profile_fields
                           THEN Put(queue, Msg("update_basic_info_chunks", 0, 0, <<>>))
                           ELSE queue
               /\ last' = Outcome("profile_update", 0, "200", 0, 0)
    /\ UNCHANGED <<docs, issued, objects, running, reqs, points, faults, jobs>>

\* what a preferences edit can carry; a rank of -1 and the field "none"
\* stand for an absent key
PreferencesData ==
    [preferred_ranking_min : {-1, 0, 400}, preferred_ranking_max : {-1, 100, 500},
     fields_of_interest : {"none", "empty", "cs"}]

\* PreferencesSerializer.validate, on the submitted keys: "ok" or the field
\* the error is reported under
PreferencesValidate(data) ==
    IF /\ data.preferred_ranking_min # -1 /\ data.preferred_ranking_max # -1
       /\ data.preferred_ranking_min > data.preferred_ranking_max
    THEN "preferred_ranking_min"
    ELSE IF data.fields_of_interest \in {"none", "empty"}
    THEN "fields_of_interest"
    ELSE "ok"

\* serializer.save() of a partial edit: the submitted keys overwrite the
\* row's columns
PreferencesSave(row, data) ==
    [preferred_ranking_min |-> IF data.preferred_ranking_min = -1
                               THEN row.preferred_ranking_min
                               ELSE data.preferred_ranking_min,
     preferred_ranking_max |-> IF data.preferred_ranking_max = -1
                               THEN row.preferred_ranking_max
                               ELSE data.preferred_ranking_max,
     fields_of_interest    |-> IF data.fields_of_interest = "none"
                               THEN row.fields_of_interest
                               ELSE data.fields_of_interest]

\* PreferencesView.update: PUT and PATCH alike build the serializer with
\* partial=True; a valid edit is saved and schedules
\* update_preferences_chunks_task
PreferencesUpdate(data) ==
    /\ BagCardinality(queue) < MaxJobs
    /\ LET v == PreferencesValidate(data)
       IN IF v = "ok"
          THEN /\ db' = [db EXCEPT !.prefs = PreferencesSave(db.prefs, data)]
               /\ queue' = Put(queue, Msg("update_preferences_chunks", 0, 0, <<>>))
               /\ last' = Outcome("preferences_update", 0, "200", 0, 0)
          ELSE /\ last' = Outcome("preferences_update", 0, v, 0, 0)
               /\ UNCHANGED <<db, queue>>
    /\ UNCHANGED <<docs, issued, objects, running, reqs, points, faults, jobs>>

InitAccount ==
    /\ docs = [d \in Docs |-> NoRow]
    /\ issued = 0
    /\ objects = [d \in Docs |-> "absent"]
    /\ queue = EmptyBag
    /\ running = EmptyBag
    /\ reqs = EmptyBag
    /\ points = EmptyBag
    /\ faults = MaxFaults
    /\ last = NoOutcome
    /\ jobs = {}
    /\ db = NoTables

NextAccount ==
    \/ \E data \in ProfileData : ProfileUpdate(data)
    \/ \E data \in PreferencesData : PreferencesUpdate(data)

SpecAccount == InitAccount /\ [][NextAccount]_vars

\* ---------------------------------------------------- universities/views.py
Universities == {1, 2}

\* a SavedUniversity row; its primary key is the request that created it
SavedRow(u, pk) == [user |-> "owner", university |-> u, pk |-> pk]

\* Meta.unique_together = ['user', 'university']: whether the table admits
\* another row of the pair
unique_togetherMutant(saved, u) == TRUE
unique_together(saved, u) == ~\E r \in saved : r.user = "owner" /\ r.university = u

\* whether the pair is saved
IsSaved(saved, u) == \E r \in saved : r.user = "owner" /\ r.university = u

\* a toggle_save request: the university, whether the pair was saved when
\* the request came in and when it was answered, the primary key of the row
\* get() found (-1: none), its position, and whether no other request was
\* in progress at any moment of it
Toggle(j, u, pc, found) ==
    [id |-> j, kind |-> "toggle_save", university |-> u, before |-> IsSaved(db.saved, u),
     after |-> FALSE, found |-> found, pc |-> pc,
     alone |-> \A o \in jobs : o.pc = "done"]

\* toggle_save, get_or_create: the lookup
ToggleGet(u) ==
    /\ Cardinality(jobs) < MaxToggles
    /\ LET j    == Cardinality(jobs) + 1
           rows == {r \in db.saved : r.user = "owner" /\ r.university = u}
           seen == {IF o.pc = "done" THEN o ELSE [o EXCEPT !.alone = FALSE] : o \in jobs}
       IN jobs' = seen \cup {IF rows = {} THEN Toggle(j, u, "create", -1)
                             ELSE Toggle(j, u, "delete", (CHOOSE r \in rows : TRUE).pk)}
    /\ last' = NoOutcome
    /\ UNCHANGED <<docs, issued, objects, queue, running, reqs, points, faults, db>>

\* get_or_create: the insert; on the IntegrityError of the unique constraint
\* the row is fetched and returned as not created
ToggleCreate(j) ==
    \E t \in jobs :
      /\ t.id = j /\ t.kind = "toggle_save" /\ t.pc = "create"
      /\ IF unique_together(db.saved, t.university)
         THEN /\ db' = [db EXCEPT !.saved = @ \cup {SavedRow(t.university, j)}]
              /\ jobs' = (jobs \ {t}) \cup {[t EXCEPT !.pc = "done", !.after = TRUE]}
              /\ last' = Outcome("toggle_save", t.university, "saved", 0, 0)
         ELSE /\ jobs' = (jobs \ {t}) \cup
                          {[t EXCEPT !.pc = "delete",
                                     !.found = (CHOOSE r \in db.saved :
                                                  r.user = "owner"
                                                  /\ r.university = t.university).pk]}
              /\ last' = NoOutcome
              /\ UNCHANGED db
      /\ UNCHANGED <<docs, issued, objects, queue, running, reqs, points, faults>>

\* not created: saved_university.delete(), by primary key
ToggleDelete(j) ==
    \E t \in jobs :
      /\ t.id = j /\ t.kind = "toggle_save" /\ t.pc = "delete"
      /\ db' = [db EXCEPT !.saved = {r \in @ : r.pk # t.found}]
      /\ jobs' = (jobs \ {t}) \cup
                  {[t EXCEPT !.pc = "done", !.after = IsSaved(db'.saved, t.university)]}
      /\ last' = Outcome("toggle_save", t.university, "removed", 0, 0)
      /\ UNCHANGED <<docs, issued, objects, queue, running, reqs, points, faults>>

\* a user who has saved one of the universities
InitSaved ==
    /\ docs = [d \in Docs |-> NoRow]
    /\ issued = 0
    /\ objects = [d \in Docs |-> "absent"]
    /\ queue = EmptyBag
    /\ running = EmptyBag
    /\ reqs = EmptyBag
    /\ points = EmptyBag
    /\ faults = MaxFaults
    /\ last = Outcome("toggle_save", 2, "saved", 0, 0)
    /\ jobs = {}
    /\ db = [NoTables EXCEPT !.saved = {SavedRow(2, 0)}]

NextSaved ==
    \/ \E u \in Universities : ToggleGet(u)
    \/ \E j \in 1..MaxToggles : ToggleCreate(j)
    \/ \E j \in 1..MaxToggles : ToggleDelete(j)

SpecSaved == InitSaved /\ [][NextSaved]_vars

\* ------------------------------------------- messaging/views/base_views.py
\* what a send-message request can carry: the text (blank, or text with or
\* without one of the emergency keywords), a conversation id (0: none) and
\* the use_rag flag
MessageData ==
    [message : {"", "visa", "hello"}, conversation_id : 0..MaxJobs, use_rag : BOOLEAN]

\* CollegeApplicationAI._get_emergency_fallback: the canned reply by keyword
get_emergency_fallback(message) ==
    IF message = "visa" THEN "canned visa advice" ELSE "canned general advice"

\* CollegeApplicationAI._generate_fallback_response: the completion without
\* retrieved context; llmOk = FALSE is a failed call
generate_fallback_response(message, llmOk) ==
    IF llmOk
    THEN [content |-> "model reply", success |-> TRUE, model_used |-> "gpt-4o"]
    ELSE [content |-> get_emergency_fallback(message), success |-> FALSE,
          model_used |-> "emergency_fallback"]

\* CollegeApplicationAI.generate_response: retrieval and completion, and on
\* any failure of theirs the fallback; ragOk = FALSE is a failed retrieval or
\* a failed completion on the retrieved context
generate_response(message, use_rag, ragOk, llmOk) ==
    IF use_rag /\ ragOk
    THEN [content |-> "model reply", success |-> TRUE, model_used |-> "gpt-4o"]
    ELSE generate_fallback_response(message, llmOk)

\* SendMessageView.post
SendMessage(data, ragOk, llmOk) ==
    LET failures == (IF data.use_rag /\ ~ragOk THEN 1 ELSE 0) + (IF llmOk THEN 0 ELSE 1)
        created  == data.conversation_id = 0
        conv     == IF created THEN db.convs + 1 ELSE data.conversation_id
        ai       == generate_response(data.message, data.use_rag, ragOk, llmOk)
    IN /\ data.use_rag \/ ragOk
       /\ (data.use_rag /\ ragOk) => llmOk
       /\ faults >= failures
       /\ IF data.message = ""
          THEN /\ failures = 0
               /\ last' = Outcome("send_message", 0, "400", 0, 0)
               /\ UNCHANGED <<db, faults>>
          ELSE IF ~created /\ data.conversation_id > db.convs
          THEN /\ failures = 0
               /\ last' = Outcome("send_message", 0, "404", 0, 0)
               /\ UNCHANGED <<db, faults>>
          ELSE /\ created => db.convs < MaxJobs
               /\ Len(db.messages) < 2 * MaxJobs
               /\ faults' = faults - failures
               /\ IF ai.success
                  THEN /\ db' = [db EXCEPT
                                   !.convs = IF created THEN conv ELSE @,
                                   !.messages = @ \o <<[conversation |-> conv, sender |-> "user",
                                                        content |-> data.message],
                                                       [conversation |-> conv, sender |-> "assistant",
                                                        content |-> ai.content]>>]
                       /\ last' = Outcome("send_message", conv, "200 model reply", 0, 0)
                  ELSE /\ db' = [db EXCEPT !.convs = IF created THEN conv ELSE @]
                       /\ last' = Outcome("send_message", conv,
                                          "500 failed to generate response, details", 0, 0)
       /\ UNCHANGED <<docs, issued, objects, queue, running, reqs, points, jobs>>

InitChat ==
    /\ docs = [d \in Docs |-> NoRow]
    /\ issued = 0
    /\ objects = [d \in Docs |-> "absent"]
    /\ queue = EmptyBag
    /\ running = EmptyBag
    /\ reqs = EmptyBag
    /\ points = EmptyBag
    /\ faults = MaxFaults
    /\ last = NoOutcome
    /\ jobs = {}
    /\ db = NoTables

NextChat ==
    \E data \in MessageData, ragOk \in BOOLEAN, llmOk \in BOOLEAN : SendMessage(data, ragOk, llmOk)

SpecChat == InitChat /\ [][NextChat]_vars

\* ------------------------------------------------------- essays/models.py
Essays == {1, 2}

\* essay contents: strings of letters and blanks of up to MaxContent characters
ContentChars == {"a", " "}
EssayContents == UNION {[1..n -> ContentChars] : n \in 0..MaxContent}

\* str.split(): the whitespace-separated tokens, counted by their first characters
split(content) ==
    {i \in 1..Len(content) : content[i] # " " /\ (i = 1 \/ content[i - 1] = " ")}

\* str.strip(), applied by the serializer's CharField (trim_whitespace)
strip(content) ==
    LET ink == {i \in 1..Len(content) : content[i] # " "}
    IN IF ink = {} THEN <<>>
       ELSE LET lo == CHOOSE i \in ink : \A k \in ink : i <= k
                hi == CHOOSE i \in ink : \A k \in ink : i >= k
            IN SubSeq(content, lo, hi)

NoEssay == [exists |-> FALSE, content |-> <<>>, word_count |-> 0, ai_feedback |-> FALSE]

\* Essay.save(): the count is taken when the content is truthy, then the row
\* is written
EssaySave(essay) ==
    IF Len(essay.content) > 0
    THEN [essay EXCEPT !.word_count = Cardinality(split(essay.content))]
    ELSE essay

\* EssayViewSet create (perform_create): the serializer requires a content
\* that is not blank after trimming; word_count is read-only
EssayCreate(e, content) ==
    /\ ~db.essays[e].exists
    /\ IF strip(content) = <<>>
       THEN /\ last' = Outcome("essay_create", 0, "400", 0, 0)
            /\ UNCHANGED db
       ELSE /\ db' = [db EXCEPT !.essays[e] =
                        EssaySave([NoEssay EXCEPT !.exists = TRUE, !.content = strip(content)])]
            /\ last' = Outcome("essay_create", e, "201", 0, 0)
    /\ UNCHANGED <<docs, issued, objects, queue, running, reqs, points, faults, jobs>>

\* EssayViewSet update: the same validation, then instance.save()
EssayUpdate(e, content) ==
    /\ db.essays[e].exists
    /\ IF strip(content) = <<>>
       THEN /\ last' = Outcome("essay_update", e, "400", 0, 0)
            /\ UNCHANGED db
       ELSE /\ db' = [db EXCEPT !.essays[e] = EssaySave([@ EXCEPT !.content = strip(content)])]
            /\ last' = Outcome("essay_update", e, "200", 0, 0)
    /\ UNCHANGED <<docs, issued, objects, queue, running, reqs, points, faults, jobs>>

\* generate_feedback: the mock feedback is stored with essay.save()
GenerateFeedback(e) ==
    /\ db.essays[e].exists
    /\ db' = [db EXCEPT !.essays[e] = EssaySave([@ EXCEPT !.ai_feedback = TRUE])]
    /\ last' = Outcome("generate_feedback", e, "200", 0, 0)
    /\ UNCHANGED <<docs, issued, objects, queue, running, reqs, points, faults, jobs>>

\* the model used directly: the content of an instance is assigned and the
\* instance saved (save() runs no field validation)
EssayEdit(e, content) ==
    /\ db' = [db EXCEPT !.essays[e] = EssaySave([@ EXCEPT !.exists = TRUE, !.content = content])]
    /\ last' = Outcome("essay_save", e, "saved", 0, 0)
    /\ UNCHANGED <<docs, issued, objects, queue, running, reqs, points, faults, jobs>>

InitEssay ==
    /\ docs = [d \in Docs |-> NoRow]
    /\ issued = 0
    /\ objects = [d \in Docs |-> "absent"]
    /\ queue = EmptyBag
    /\ running = EmptyBag
    /\ reqs = EmptyBag
    /\ points = EmptyBag
    /\ faults = MaxFaults
    /\ last = NoOutcome
    /\ jobs = {}
    /\ db = [essays |-> [e \in Essays |-> NoEssay]]

NextEssay ==
    \/ \E e \in Essays, c \in EssayContents : EssayCreate(e, c)
    \/ \E e \in Essays, c \in EssayContents : EssayUpdate(e, c)
    \/ \E e \in Essays : GenerateFeedback(e)
    \/ \E e \in Essays, c \in EssayContents : EssayEdit(e, c)

SpecEssay == InitEssay /\ [][NextEssay]_vars


\* ----------------------------------------- users/models.py, completion
\* the rows get_completion_percentage reads.  A string column is "" when
\* blank and "null" when NULL, a number column -1 when NULL; gpa is in tenths.
NoAccount ==
    [user     |-> [exists |-> FALSE, first_name |-> "", last_name |-> "", email |-> ""],
     profile  |-> [phone_number |-> ""],
     prefs    |-> [applying_for |-> "bachelor", fields_of_interest |-> "empty",
                   preferred_ranking_min |-> 0, preferred_ranking_max |-> 500],
     academic |-> [exists |-> FALSE, high_school_name |-> "null", graduation_year |-> -1,
                   gpa |-> -1, sat_score |-> -1, act_score |-> -1]]

\* Python truth values of the column values
TruthyStr(s) == s \notin {"", "null", "empty"}
TruthyNum(n) == n \notin {-1, 0}

\* UserProfile.get_completion_percentage
completion_score(t) ==
    LET one(b) == IF b THEN 1 ELSE 0
    IN one(TruthyStr(t.user.first_name)) + one(TruthyStr(t.user.last_name))
       + one(TruthyStr(t.user.email))
       + one(TruthyStr(t.profile.phone_number))
       + one(TruthyStr(t.prefs.applying_for)) + one(TruthyStr(t.prefs.fields_of_interest))
       + (IF t.academic.exists
          THEN one(TruthyStr(t.academic.high_school_name)) + one(TruthyNum(t.academic.gpa))
               + one(TruthyNum(t.academic.sat_score) \/ TruthyNum(t.academic.act_score))
               + one(TruthyNum(t.academic.graduation_year))
          ELSE 0)

total_fields == 10

\* round((completion_score / total_fields) * 100)
get_completion_percentage(t) ==
    (2 * 100 * completion_score(t) + total_fields) \div (2 * total_fields)

\* what a registration can carry besides username and password
RegisterData == [first_name : {"", "Ann"}, last_name : {"", "Lee"}, email : {"", "a@b.c"}]

\* RegisterView.create: the User row, then the UserProfile and Preferences
\* rows with their column defaults
RegisterViewCreate(data) ==
    /\ ~db.user.exists
    /\ db' = [NoAccount EXCEPT !.user = [exists |-> TRUE, first_name |-> data.first_name,
                                         last_name |-> data.last_name, email |-> data.email]]
    /\ last' = Outcome("register", 0, "201", 0, 0)
    /\ UNCHANGED <<docs, issued, objects, queue, running, reqs, points, faults, jobs>>

\* ProfileView.update carrying one key of the user or of the profile
AccountFieldUpdate(k, v) ==
    /\ db.user.exists
    /\ db' = IF k = "phone_number"
             THEN [db EXCEPT !.profile.phone_number = v]
             ELSE [db EXCEPT !.user = [@ EXCEPT ![k] = v]]
    /\ db' # db
    /\ last' = NoOutcome
    /\ UNCHANGED <<docs, issued, objects, queue, running, reqs, points, faults, jobs>>

\* the values one key of an academic edit can carry
AcademicValues(k) ==
    CASE k = "high_school_name" -> {"", "Lincoln High"}
      [] k = "gpa"              -> {-1, 0, 35}
      [] k = "sat_score"        -> {-1, 1400}
      [] k = "act_score"        -> {-1, 30}
      [] OTHER                  -> {-1, 2025}

\* AcademicInfoView.update carrying one key: get_or_create, then the partial
\* save
AcademicInfoUpdate(k, v) ==
    /\ db.user.exists
    /\ db' = [db EXCEPT !.academic = [@ EXCEPT !.exists = TRUE, ![k] = v]]
    /\ db' # db
    /\ last' = NoOutcome
    /\ UNCHANGED <<docs, issued, objects, queue, running, reqs, points, faults, jobs>>

\* PreferencesView.update carrying the degree (a choice field) and the
\* fields of interest
PreferencesEdit(degree, interests) ==
    /\ db.user.exists
    /\ LET data == [preferred_ranking_min |-> -1, preferred_ranking_max |-> -1,
                    fields_of_interest |-> interests]
       IN /\ PreferencesValidate(data) = "ok"
          /\ db' = [db EXCEPT !.prefs.applying_for = degree,
                               !.prefs.fields_of_interest = interests]
    /\ db' # db
    /\ last' = NoOutcome
    /\ UNCHANGED <<docs, issued, objects, queue, running, reqs, points, faults, jobs>>

\* UserStatsView.get: the figure reported as profile_completion
UserStatsViewGet ==
    /\ db.user.exists
    /\ last' = [op |-> "user_stats", doc |-> 0, code |-> "200", retries |-> 0, delay |-> 0,
                profile_completion |-> get_completion_percentage(db)]
    /\ last' # last
    /\ UNCHANGED <<docs, issued, objects, queue, running, reqs, points, faults, jobs, db>>

InitCompletion ==
    /\ docs = [d \in Docs |-> NoRow]
    /\ issued = 0
    /\ objects = [d \in Docs |-> "absent"]
    /\ queue = EmptyBag
    /\ running = EmptyBag
    /\ reqs = EmptyBag
    /\ points = EmptyBag
    /\ faults = MaxFaults
    /\ last = NoOutcome
    /\ jobs = {}
    /\ db = NoAccount

NextCompletion ==
    \/ \E data \in RegisterData : RegisterViewCreate(data)
    \/ \E k \in {"first_name", "last_name", "email", "phone_number"}, v \in {"", "x"} :
         AccountFieldUpdate(k, v)
    \/ \E k \in {"high_school_name", "gpa", "sat_score", "act_score", "graduation_year"} :
         \E v \in AcademicValues(k) : AcademicInfoUpdate(k, v)
    \/ \E g \in {"bachelor", "master"}, i \in {"empty", "cs"} : PreferencesEdit(g, i)
    \/ UserStatsViewGet

SpecCompletion == InitCompletion /\ [][NextCompletion]_vars


\* ------------------------------- core/services/rag_service.py, chunking
\* a text is kept by what the chunker inspects: the pieces between its
\* periods, each with the number of blanks before its first letter and the
\* number of characters from its first to its last letter (0: a piece of
\* blanks only, or the empty piece after a final period)
Piece(lead, body) == [lead |-> lead, body |-> body]
PieceLeads  == {0, 1}
PieceBodies == {0, 1, 498, 499, 500, 999}
Pieces == {Piece(l, b) : l \in PieceLeads, b \in PieceBodies}
SentenceTexts == UNION {[1..n -> Pieces] : n \in 1..MaxPieces}

\* the sum of a sequence of numbers
RECURSIVE SumSeq(_)
SumSeq(q) ==
    IF q = <<>> THEN 0
    ELSE IF Len(q) = 1 THEN q[1]
    ELSE LET h == Len(q) \div 2
         IN SumSeq(SubSeq(q, 1, h)) + SumSeq(SubSeq(q, h + 1, Len(q)))

\* len(text): the pieces and the periods between them
TextLen(text) ==
    SumSeq([i \in 1..Len(text) |-> text[i].lead + text[i].body]) + Len(text) - 1

\* [s.strip() + '.' for s in text.split('.') if s.strip()], by their lengths
RECURSIVE Sentences(_)
Sentences(text) ==
    IF text = <<>> THEN <<>>
    ELSE IF Head(text).body > 0
    THEN <<Head(text).body + 1>> \o Sentences(Tail(text))
    ELSE Sentences(Tail(text))

\* ' '.join(current_chunk), by its length
JoinLen(lens) == IF lens = <<>> THEN 0 ELSE SumSeq(lens) + Len(lens) - 1

Chunk(lens, chunk_type) ==
    [content |-> JoinLen(lens), sentences |-> lens, chunk_type |-> chunk_type]

\* the loop of _chunk_generic over the sentences and the final chunk
RECURSIVE chunk_generic_loop(_, _, _, _, _)
chunk_generic_loop(sentences, chunks, current_chunk, current_size, max_chunk_size) ==
    IF sentences = <<>>
    THEN IF current_chunk # <<>>
         THEN Append(chunks, Chunk(current_chunk, "sentence_chunk"))
         ELSE chunks
    ELSE LET sentence == Head(sentences)
         IN IF current_size + sentence > max_chunk_size /\ current_chunk # <<>>
            THEN chunk_generic_loop(Tail(sentences),
                                    Append(chunks, Chunk(current_chunk, "sentence_chunk")),
                                    <<sentence>>, sentence, max_chunk_size)
            ELSE chunk_generic_loop(Tail(sentences), chunks,
                                    Append(current_chunk, sentence),
                                    current_size + sentence, max_chunk_size)

\* RAGService._chunk_generic
chunk_generic(text, max_chunk_size) ==
    IF TextLen(text) <= max_chunk_size
    THEN <<[content |-> TextLen(text), sentences |-> Sentences(text),
            chunk_type |-> "single_chunk"]>>
    ELSE chunk_generic_loop(Sentences(text), <<>>, <<>>, 0, max_chunk_size)

GENERIC_MAX_CHUNK_SIZE == 1000

\* _chunk_generic is applied to a text
ChunkGeneric ==
    /\ db.kind = "sentences" /\ ~db.chunked
    /\ db' = [db EXCEPT !.chunked = TRUE,
                        !.chunks = chunk_generic(db.text, GENERIC_MAX_CHUNK_SIZE)]
    /\ last' = Outcome("chunk_generic", 0, "done", 0, 0)
    /\ UNCHANGED <<docs, issued, objects, queue, running, reqs, points, faults, jobs>>

\* ------------------------------ core/tasks/embedding_tasks.py, chunking
\* a text of words separated by single blanks, kept as runs of words of
\* one length; the words are the positions of the sequence of their lengths
Run(count, size) == [count |-> count, size |-> size]
RunCounts == {1, 91, 130}
RunSizes  == {8, 10}
WordTexts == UNION {[1..n -> {Run(c, z) : c \in RunCounts, z \in RunSizes}] : n \in 0..MaxRuns}

\* text.split(), by the lengths of the words
RECURSIVE Words(_)
Words(runs) ==
    IF runs = <<>> THEN <<>>
    ELSE [i \in 1..Head(runs).count |-> Head(runs).size] \o Words(Tail(runs))

\* sum(len(w) + 1 for w in current_chunk)
SizeOf(W, chunk) == SumSeq([i \in 1..Len(chunk) |-> W[chunk[i]] + 1])

\* ' '.join(current_chunk): its length and the words it is made of
WordChunk(W, chunk) ==
    [content |-> JoinLen([i \in 1..Len(chunk) |-> W[chunk[i]]]), words |-> chunk]

\* one pass of the loop body of _chunk_text (lines 663-681) for the word at
\* position i: the chunks, the current chunk and its size after it
chunk_text_word(W, i, chunks, current_chunk, current_size, max_chunk_size, overlap) ==
    LET word_size == W[i] + 1
    IN IF current_size + word_size > max_chunk_size /\ current_chunk # <<>>
       THEN LET overlap_words ==
                  IF Len(current_chunk) > overlap
                  THEN SubSeq(current_chunk, Len(current_chunk) - overlap + 1,
                              Len(current_chunk))
                  ELSE current_chunk
                next_chunk == IF overlap > 0 THEN Append(overlap_words, i) ELSE <<i>>
            IN [chunks        |-> Append(chunks, WordChunk(W, current_chunk)),
                current_chunk |-> next_chunk,
                current_size  |-> IF overlap > 0 THEN SizeOf(W, next_chunk) ELSE word_size]
       ELSE [chunks        |-> chunks,
             current_chunk |-> Append(current_chunk, i),
             current_size  |-> current_size + word_size]

TEXT_MAX_CHUNK_SIZE == 1000
TEXT_OVERLAP        == 100

\* _chunk_text called by _extract_and_chunk_document with its default sizes,
\* lines 653-661: an empty text gives no chunk, a text within the size one
\* chunk; otherwise the loop begins
ChunkTextBegin ==
    /\ db.kind = "words" /\ ~db.chunked /\ db.i = 0
    /\ LET W == Words(db.text)
       IN db' = IF W = <<>>
                THEN [db EXCEPT !.chunked = TRUE]
                ELSE IF JoinLen(W) <= TEXT_MAX_CHUNK_SIZE
                THEN [db EXCEPT !.chunked = TRUE,
                                !.chunks = <<WordChunk(W, [i \in 1..Len(W) |-> i])>>]
                ELSE [db EXCEPT !.i = 1]
    /\ last' = NoOutcome
    /\ UNCHANGED <<docs, issued, objects, queue, running, reqs, points, faults, jobs>>

\* lines 663-681: the loop body for the next word
ChunkTextWord ==
    /\ db.kind = "words" /\ ~db.chunked
    /\ db.i \in 1..Len(Words(db.text))
    /\ LET x == chunk_text_word(Words(db.text), db.i, db.chunks, db.current_chunk,
                                db.current_size, TEXT_MAX_CHUNK_SIZE, TEXT_OVERLAP)
       IN db' = [db EXCEPT !.i = @ + 1, !.chunks = x.chunks,
                           !.current_chunk = x.current_chunk,
                           !.current_size = x.current_size]
    /\ last' = NoOutcome
    /\ UNCHANGED <<docs, issued, objects, queue, running, reqs, points, faults, jobs>>

\* lines 683-688: the final chunk
ChunkTextEnd ==
    /\ db.kind = "words" /\ ~db.chunked
    /\ db.i > Len(Words(db.text))
    /\ db' = [db EXCEPT !.chunked = TRUE,
                        !.chunks = IF db.current_chunk # <<>>
                                   THEN Append(@, WordChunk(Words(db.text), db.current_chunk))
                                   ELSE @,
                        !.current_chunk = <<>>, !.current_size = 0]
    /\ last' = Outcome("chunk_text", 0, "done", 0, 0)
    /\ UNCHANGED <<docs, issued, objects, queue, running, reqs, points, faults, jobs>>

InitChunk ==
    /\ docs = [d \in Docs |-> NoRow]
    /\ issued = 0
    /\ objects = [d \in Docs |-> "absent"]
    /\ queue = EmptyBag
    /\ running = EmptyBag
    /\ reqs = EmptyBag
    /\ points = EmptyBag
    /\ faults = MaxFaults
    /\ last = NoOutcome
    /\ jobs = {}
    /\ \/ \E t \in SentenceTexts :
            db = [kind |-> "sentences", text |-> t, chunked |-> FALSE, chunks |-> <<>>]
       \/ \E t \in WordTexts :
            db = [kind |-> "words", text |-> t, chunked |-> FALSE, chunks |-> <<>>,
                  i |-> 0, current_chunk |-> <<>>, current_size |-> 0]

NextChunk ==
    \/ ChunkGeneric
    \/ ChunkTextBegin
    \/ ChunkTextWord
    \/ ChunkTextEnd

SpecChunk == InitChunk /\ [][NextChunk]_vars


\* ------------------------------------------ confirmations that overlap
\* confirm_upload requests for one document arriving from several tabs or
\* a retrying client: up to MaxRequests of them are in progress at a time
InitConfirm == Init

NextConfirm ==
    \/ \E t \in DOCUMENT_TYPES, ok \in BOOLEAN : RequestUploadUrl(t, ok)
    \/ \E d \in Docs, k \in Contents : ClientUpload(d, k)
    \/ \E d \in Docs : ConfirmLoadAmong(d, MaxRequests)
    \/ ConfirmVerify
    \/ \E ok \in BOOLEAN : ConfirmSchedule(ok)

SpecConfirm == InitConfirm /\ [][NextConfirm]_vars


\* ------------------------------------------- the pipeline run to its end
\* an uploaded document waiting to be confirmed: the row request_upload_url
\* made and the object the client put under its key
InitLive ==
    /\ \E k \in Contents, t \in {"i20", "other"} :
         /\ docs = [d \in Docs |-> NewRow(t, "s3", "pending")]
         /\ objects = [d \in Docs |-> k]
    /\ issued = MaxDocs
    /\ queue = EmptyBag
    /\ running = EmptyBag
    /\ reqs = EmptyBag
    /\ points = EmptyBag
    /\ faults = MaxFaults
    /\ last = Outcome("request_upload_url", 1, "201", 0, 0)
    /\ jobs = {}
    /\ db = NoTables

NextLive ==
    \/ \E d \in Docs : ConfirmLoad(d)
    \/ ConfirmVerify
    \/ \E ok \in BOOLEAN : ConfirmSchedule(ok)
    \/ OcrStart
    \/ \E ok \in BOOLEAN : OcrFinish(ok)
    \/ ValidateStart
    \/ \E ok \in BOOLEAN : ValidateFinish(ok)
    \/ \E ok \in BOOLEAN : EmbedStart(ok)
    \/ \E ok \in BOOLEAN : EmbedFinish(ok)

\* a request handler that has begun returns, and the workers keep taking
\* messages and every attempt they begin ends
FairLive ==
    /\ WF_vars(ConfirmVerify)
    /\ WF_vars(\E ok \in BOOLEAN : ConfirmSchedule(ok))
    /\ WF_vars(OcrStart)
    /\ WF_vars(\E ok \in BOOLEAN : OcrFinish(ok))
    /\ WF_vars(ValidateStart)
    /\ WF_vars(\E ok \in BOOLEAN : ValidateFinish(ok))
    /\ WF_vars(\E ok \in BOOLEAN : EmbedStart(ok))
    /\ WF_vars(\E ok \in BOOLEAN : EmbedFinish(ok))

SpecLive == InitLive /\ [][NextLive]_vars /\ FairLive


\* ---------------------------------------------------------- specification
Next ==
    \/ \E t \in DeclaredTypes, ok \in BOOLEAN : RequestUploadUrl(t, ok)
    \/ RequestUploadUrlInvalid
    \/ \E d \in Docs, k \in Contents : ClientUpload(d, k)
    \/ \E d \in Docs : ConfirmLoad(d)
    \/ ConfirmVerify
    \/ \E ok \in BOOLEAN : ConfirmSchedule(ok)
    \/ \E t \in DOCUMENT_TYPES : LegacyCreate(t)
    \/ \E d \in Docs : ProcessDocument(d)
    \/ \E d \in Docs, ok \in BOOLEAN : Destroy(d, ok)
    \/ OcrStart
    \/ \E ok \in BOOLEAN : OcrFinish(ok)
    \/ ValidateStart
    \/ \E ok \in BOOLEAN : ValidateFinish(ok)
    \/ \E ok \in BOOLEAN : EmbedStart(ok)
    \/ \E ok \in BOOLEAN : EmbedFinish(ok)

Spec == Init /\ [][Next]_vars

TypeOK ==
    /\ \A d \in Docs : docs[d].exists => docs[d].status \in STATUS_CHOICES
    /\ issued \in 0..MaxDocs
    /\ faults \in 0..MaxFaults


\* ------------------------------------------------------------ properties
Terminal == {"successful", "validation_failed", "error"}

\* an execution of the given task that ends in this step
Ends(e, task) == e.msg.task = task /\ running' = Take(running, e)

\* messages of a task for a document that this step adds to the broker
Sent(task, d) ==
    {m \in BagToSet(queue') : m.task = task /\ m.doc = d
                              /\ CopiesIn(m, queue') > CopiesIn(m, queue)}

\* C1: once OCR has failed on every attempt for a document (ocr_status is
\* 'failed' and no OCR attempt is pending or running), neither the validation
\* task nor the embedding task is started for it.
C1_OcrExhaustedHalts ==
    \A d \in Docs :
      (docs[d].exists /\ docs[d].ocr_status = "failed" /\ ~InFlight("ocr", d))
        => \A e \in BagToSet(running) : e.msg.doc = d => e.msg.task = "ocr"

\* C2: a document in status 'validation_failed' is not embedded: no embedding
\* execution runs for it and the vector index holds no point of it.
C2_NoEmbeddingOfFailed ==
    \A d \in Docs :
      (docs[d].exists /\ docs[d].status = "validation_failed")
        => /\ \A e \in BagToSet(running) : ~(e.msg.task = "embed" /\ e.msg.doc = d)
           /\ \A p \in BagToSet(points) : ~(p.type = "document" /\ p.doc = d)

\* C3: the chain runs strictly in order: validation runs only when no OCR
\* attempt of the document is pending or running, embedding only when no
\* validation attempt of the document is pending or running.
C3_StrictOrder ==
    \A e \in BagToSet(running) :
      /\ e.msg.task = "validate" => ~InFlight("ocr", e.msg.doc)
      /\ e.msg.task = "embed" => ~InFlight("validate", e.msg.doc)

\* the OCR half of C3, which the chain does keep
C3_OcrBeforeValidation ==
    \A d \in Docs : InFlight("validate", d) => ~InFlight("ocr", d)

\* C4: 'successful', 'validation_failed' and 'error' are terminal: no step
\* changes such a status of a stored document to another value.
C4_TerminalStatus ==
    [][\A d \in Docs :
         (docs[d].exists /\ docs'[d].exists /\ docs[d].status \in Terminal)
           => docs'[d].status = docs[d].status]_vars

\* C5: every stored document has a status among the five status choices.
C5_StatusInChoices ==
    \A d \in Docs :
      docs[d].exists =>
        docs[d].status \in {"pending", "processing", "successful",
                            "validation_failed", "error"}

\* the synchronous pipeline tried to store 'completed' and the row is 'error'
C5_Witness ==
    \E d \in Docs :
      /\ last = Outcome("process_document", d, "processing_failed", 0, 0)
      /\ docs[d].exists /\ docs[d].status = "error"

\* C6: confirm_upload on a pending document stores 'processing' when the
\* object is in storage; when it is absent the request answers 404, the rows
\* stay as they are and no task is sent.
C6_ConfirmUpload ==
    [][\A r \in BagToSet(reqs) :
         (r.pc = "loaded" /\ CopiesIn(r, reqs') < CopiesIn(r, reqs))
           => IF objects[r.doc] # "absent"
              THEN /\ r.local.status = "pending"
                   /\ docs'[r.doc].status = "processing"
              ELSE /\ last' = Outcome("confirm_upload", r.doc, "404", 0, 0)
                   /\ docs' = docs /\ queue' = queue
                   /\ reqs' = Take(reqs, r)]_vars

\* a confirmation was refused with 404 and the document is still pending
C6_Witness ==
    \E d \in Docs :
      /\ last = Outcome("confirm_upload", d, "404", 0, 0)
      /\ docs[d].exists /\ docs[d].status = "pending" /\ objects[d] = "absent"
      /\ queue = EmptyBag

\* C7: an OCR attempt on content the extractor cannot read is attempt 0..3;
\* attempts 0, 1 and 2 send exactly one retry, with countdown 60, 120 and 240
\* seconds; attempt 3 sends no retry and returns the failure result; each
\* leaves ocr_status 'failed'.
C7_OcrRetries ==
    [][\A e \in BagToSet(running) :
         (Ends(e, "ocr") /\ ~extract_text_from_document(objects[e.msg.doc]).success)
           => LET r == e.msg.retries
                  d == e.msg.doc
              IN /\ r \in 0..3
                 /\ docs'[d].exists => docs'[d].ocr_status = "failed"
                 /\ r < 3 =>
                      /\ last' = Outcome("ocr", d, "retry", r,
                                         IF r = 0 THEN 60 ELSE IF r = 1 THEN 120 ELSE 240)
                      /\ queue' = Put(queue, [e.msg EXCEPT !.retries = r + 1])
                 /\ r = 3 =>
                      /\ last' = Outcome("ocr", d, "failure", 3, 0)
                      /\ Sent("ocr", d) = {}]_vars

\* the fourth attempt has returned the failure and the row says 'failed'
C7_Witness ==
    \E d \in Docs :
      /\ last = Outcome("ocr", d, "failure", 3, 0)
      /\ docs[d].exists /\ docs[d].ocr_status = "failed"
      /\ ~InFlight("ocr", d)

\* C8: a validation attempt that finds the text missing or shorter than 10
\* characters asks for one retry 30 seconds later and leaves the status as it
\* was while retries remain; with the 3 retries used up it sets status 'error'.
C8_TextMissingRetry ==
    [][\A e \in BagToSet(running) :
         (Ends(e, "validate") /\ TextMissing(e.local.text) /\ docs[e.msg.doc].exists)
           => LET r == e.msg.retries
                  d == e.msg.doc
              IN /\ r < 3 =>
                      /\ docs'[d].status = docs[d].status
                      /\ last' = Outcome("validate", d, "retry", r, 30)
                      /\ queue' = Put(queue, [e.msg EXCEPT !.retries = r + 1])
                 /\ r >= 3 =>
                      /\ docs'[d].status = "error"
                      /\ Sent("validate", d) = {}]_vars

\* the validation attempt ended in the generic exception handler: the text
\* check raised, or the save of the result failed
HandlerRan(e) == TextMissing(e.local.text) \/ faults' < faults

\* C9 as stated: after an exception the task is retried once only, so an
\* attempt that is itself a retry and raises sends no further retry.
C9_RetriedOnce ==
    [][\A e \in BagToSet(running) :
         (Ends(e, "validate") /\ ~TextMissing(e.local.text) /\ faults' < faults
            /\ e.msg.retries >= 1)
           => Sent("validate", e.msg.doc) = {}]_vars

\* C9 amended: when the generic handler of validate_document_task runs, the
\* row (if it can be fetched) gets status 'error'; attempts 0, 1 and 2 ask
\* for a retry 60 seconds later, attempt 3 returns the error with no retry.
C9_RetriedUpToThree ==
    [][\A e \in BagToSet(running) :
         (Ends(e, "validate") /\ HandlerRan(e))
           => LET r == e.msg.retries
                  d == e.msg.doc
              IN /\ r \in 0..3
                 /\ docs'[d].exists =>
                      docs'[d].status = "error" /\ docs'[d].notes = "validation error"
                 /\ r < 3 =>
                      /\ last' = Outcome("validate", d, "retry", r, 60)
                      /\ Sent("validate", d) = {[e.msg EXCEPT !.retries = r + 1]}
                 /\ r = 3 =>
                      /\ last' = Outcome("validate", d, "failure", 3, 0)
                      /\ Sent("validate", d) = {}]_vars

\* a retry of the validation has itself failed on a readable text and asked
\* for the next retry
C9_Witness ==
    \E d \in Docs :
      /\ last = Outcome("validate", d, "retry", 1, 60)
      /\ docs[d].exists /\ ~TextMissing(docs[d].text) /\ docs[d].status = "error"
      /\ \E m \in BagToSet(queue) : m.task = "validate" /\ m.doc = d /\ m.retries = 2

\* C10: when all profile re-embedding jobs have finished, with every delete
\* request gone through, the vector index holds at most one point of each
\* chunk type for a user.
C10_OnePointPerChunkType ==
    (\A job \in jobs : JobDone(job) /\ job.cleared)
      => \A p, q \in BagToSet(points) :
           (p.type = "profile_chunk" /\ q.type = "profile_chunk"
              /\ p.user = q.user /\ p.ctype = q.ctype)
             => (p = q /\ points[p] = 1)

\* the number of points of one chunk type that the index holds for a user
ChunkCount(user, ctype) ==
    LET sel == {p \in BagToSet(points) :
                  p.user = user /\ p.type = "profile_chunk" /\ p.ctype = ctype}
    IN BagCardinality([p \in sel |-> points[p]])

\* C11: two full profile embeddings of one user, the second begun after the
\* first had finished and both reporting their chunks stored, leave exactly
\* one point of every chunk type the second one generated.
C11_TwiceInSuccession ==
    \A a, b \in jobs :
      (/\ a.kind = "full" /\ b.kind = "full" /\ a.user = b.user /\ a.id < b.id
       /\ b.seq /\ JobDone(a) /\ JobDone(b) /\ a.stored /\ b.stored
       /\ \A o \in jobs : o.user = a.user => o \in {a, b})
        => \A t \in b.gen : ChunkCount(b.user, t) = 1

\* C14: a step of update_specific_profile_chunks (one of its delete requests
\* or its upsert) changes only points of the job's user whose chunk type is
\* in the requested list; every other point stays as it is.
C14_UpdateFrame ==
    [][\A job \in jobs :
         (job.kind = "update" /\ \E n \in jobs' : n.id = job.id /\ n.pc = job.pc + 1)
           => \A p \in BagToSet(points) \cup BagToSet(points') :
                (\/ p.user # job.user \/ p.type # "profile_chunk"
                 \/ p.ctype \notin Range(job.types))
                  => CopiesIn(p, points') = CopiesIn(p, points)]_vars

\* an update has cleared and stored its chunk types while another user holds
\* a point of one of those types
C14_Witness ==
    \E job \in jobs :
      /\ job.kind = "update" /\ JobDone(job) /\ job.cleared /\ job.stored
      /\ \E p \in BagToSet(points) :
           p.user # job.user /\ p.type = "profile_chunk" /\ p.ctype \in Range(job.types)
      /\ \A t \in job.gen : ChunkCount(job.user, t) = 1

\* the document points of d in the vector index
DocPointsOf(pts, d) ==
    LET S == {p \in BagToSet(pts) : p.type = "document" /\ p.doc = d}
    IN [p \in S |-> pts[p]]

\* C12: when embed_document_task succeeds for a document, the index holds
\* for that document exactly the points of this run, whatever earlier runs
\* had stored
C12_ReembedReplaces ==
    [][\A e \in BagToSet(running) :
         (Ends(e, "embed") /\ last'.op = "embed" /\ last'.code = "success")
         => DocPointsOf(points', e.msg.doc)
              = DocumentPoints(e.msg.doc, NumChunks(e.local.text))]_vars

\* C13: once destroy() has answered 204 for a document, no vector point
\* carries its document id and no RAGChunk row names it in its metadata
C13_DeletedLeavesNothing ==
    (last.op = "destroy" /\ last.code = "204")
    => /\ DocPointsOf(points, last.doc) = EmptyBag
       /\ \A r \in db.rag : r.doc # last.doc

\* C15: while a rebuild command runs for a user whose profile chunk was in
\* the table, the committed table never lacks that chunk: its deletion and
\* its rebuild become visible together
C15_NoHalfDeleted ==
    \A job \in jobs :
      (job.kind \in {"clean_rebuild", "clear_and_rebuild"} /\ job.seq /\ job.pc = 0
       /\ \A o \in jobs : o.id <= job.id)
      => ProfileRow(job.user) \in db.rag

\* C16: an attempt of validate_document_task that finds at least 10
\* characters of text and saves its result sets the status 'successful'
\* when the declared type is 'other', or has no pattern table, or the share
\* of matched patterns reaches the type's threshold, and 'validation_failed'
\* otherwise; for an i20, 5 of 9 patterns pass and 4 of 9 fail
C16_StatusFollowsStructure ==
    [][\A e \in BagToSet(running) :
         LET t == e.local.dtype
             x == e.local.text
             passes == \/ t = "other"
                       \/ PatternCount(t) = 0
                       \/ x.m * 10 >= Threshold10(t) * PatternCount(t)
         IN (Ends(e, "validate") /\ ~TextMissing(x)
             /\ last'.op = "validate" /\ last'.code = "success")
            => /\ docs'[e.msg.doc].status =
                    IF passes THEN "successful" ELSE "validation_failed"
               /\ (t = "i20" /\ x.m = 5) => docs'[e.msg.doc].status = "successful"
               /\ (t = "i20" /\ x.m = 4) => docs'[e.msg.doc].status = "validation_failed"]_vars

C16_Witness ==
    /\ last = Outcome("validate", 1, "success", 0, 0)
    /\ docs[1].dtype = "i20" /\ docs[1].text.m = 4 /\ docs[1].text.len >= MIN_TEXT_LEN
    /\ docs[1].status = "validation_failed"

\* C17: a profile edit answered with a validation error of either group
\* leaves the user row and the profile row as they were
C17_NoPartialEdit ==
    [][(last'.op = "profile_update" /\ last'.code # "200")
       => (db'.user = db.user /\ db'.profile = db.profile)]_vars

\* C18: the stored preferences keep preferred_ranking_min at or below
\* preferred_ranking_max
C18_MinAtMostMax ==
    db.prefs.preferred_ranking_min <= db.prefs.preferred_ranking_max

\* C19: two toggle_save requests in a row on one university, each answered
\* with no other request in progress, leave the pair as saved or unsaved as
\* it was before the first; and whatever requests overlap, the table holds
\* at most one row of a (user, university) pair
C19_ToggleTwice ==
    /\ \A a, b \in jobs :
         (/\ a.kind = "toggle_save" /\ b.kind = "toggle_save"
          /\ b.id = a.id + 1 /\ a.university = b.university
          /\ a.alone /\ b.alone /\ a.pc = "done" /\ b.pc = "done")
         => b.after = a.before
    /\ \A r, q \in db.saved :
         (r.user = q.user /\ r.university = q.university) => r = q

C19_Witness ==
    /\ \E a, b \in jobs :
         /\ a.kind = "toggle_save" /\ b.kind = "toggle_save"
         /\ b.id = a.id + 1 /\ a.university = b.university
         /\ a.alone /\ b.alone /\ a.pc = "done" /\ b.pc = "done"
         /\ ~a.before /\ a.after /\ ~b.after
    /\ \E t \in jobs : ~t.alone /\ t.pc = "done" /\ t.found # -1 /\ ~t.before

\* C20: a send-message request during which a stage of response generation
\* failed is never answered with an error: the caller gets the model's reply
\* when a later stage succeeded and the canned advisory reply when none did
C20_CannedReplyOnFailure ==
    [][(last'.op = "send_message" /\ faults' < faults)
       => last'.code \in {"200 model reply", "200 canned reply"}]_vars

\* C21: a legacy direct upload with a valid inline file is answered 201 and
\* leaves the new document stored with status 'completed'
C21_LegacyCreateCompleted ==
    last.op = "create"
      => /\ last.code = "201"
         /\ last.doc \in Docs
         /\ docs[last.doc].exists /\ docs[last.doc].status = "completed"

\* C22: every stored essay has word_count equal to the number of
\* whitespace-separated tokens of its content, 0 for an empty content,
\* whatever was saved before
C22_WordCountFollowsContent ==
    \A e \in Essays :
      db.essays[e].exists
        => db.essays[e].word_count = Cardinality(split(db.essays[e].content))

\* the tracked signals of a profile that are present
Signals(t) ==
    {k \in {"first_name", "last_name", "email"} : t.user[k] \notin {"", "null"}}
      \cup {k \in {"phone_number"} : t.profile[k] # ""}
      \cup {k \in {"applying_for"} : t.prefs[k] # ""}
      \cup {k \in {"fields_of_interest"} : t.prefs[k] # "empty"}
      \cup {k \in {"high_school_name"} : t.academic.exists /\ t.academic[k] \notin {"", "null"}}
      \cup {k \in {"gpa", "graduation_year"} : t.academic.exists /\ t.academic[k] > 0}
      \cup {k \in {"test_score"} :
              t.academic.exists /\ (t.academic.sat_score > 0 \/ t.academic.act_score > 0)}

\* the user has nothing but the rows registration creates
BareShell(t) ==
    /\ t.user.exists
    /\ t.user.first_name = "" /\ t.user.last_name = "" /\ t.user.email = ""
    /\ t.profile = NoAccount.profile /\ t.prefs = NoAccount.prefs
    /\ ~t.academic.exists

\* C23: the completion percentage is 0 for a user with only the rows
\* registration creates, is 100 only with all 10 tracked signals present, and
\* does not decrease when a step adds tracked signals and removes none
C23_Completion ==
    [][/\ BareShell(db') => get_completion_percentage(db') = 0
       /\ get_completion_percentage(db') = 100 => Cardinality(Signals(db')) = 10
       /\ (db.user.exists /\ Signals(db) \subseteq Signals(db'))
            => get_completion_percentage(db') >= get_completion_percentage(db)]_vars

\* the two parts of C23 that the code keeps
C23_FullAndMonotone ==
    [][/\ get_completion_percentage(db') = 100 => Cardinality(Signals(db')) = 10
       /\ (db.user.exists /\ Signals(db) \subseteq Signals(db'))
            => get_completion_percentage(db') >= get_completion_percentage(db)]_vars

\* the sentences of all chunks, in order
RECURSIVE ChunkSentences(_)
ChunkSentences(chunks) ==
    IF chunks = <<>> THEN <<>> ELSE Head(chunks).sentences \o ChunkSentences(Tail(chunks))

\* C24: _chunk_generic returns one chunk for a text of at most 1000
\* characters; for a longer text of two or more sentences, none longer than
\* 1000 characters, it returns at least two chunks, none over 1000
\* characters; and the chunks hold the sentences whole and in order
C24_GenericChunks ==
    (db.kind = "sentences" /\ db.chunked)
      => LET S == Sentences(db.text)
         IN /\ TextLen(db.text) <= 1000 => Len(db.chunks) = 1
            /\ (/\ TextLen(db.text) > 1000 /\ Len(S) >= 2
                /\ \A i \in 1..Len(S) : S[i] <= 1000)
                 => /\ Len(db.chunks) >= 2
                    /\ \A i \in 1..Len(db.chunks) : db.chunks[i].content <= 1000
            /\ ChunkSentences(db.chunks) = S

\* C30: _chunk_text with sizes 1000 and 100 returns pieces of at most 1000
\* characters, and every chunk after the first begins with the last 100
\* words of the chunk before it
C30_WordChunks ==
    (db.kind = "words" /\ db.chunked)
      => /\ \A i \in 1..Len(db.chunks) : db.chunks[i].content <= 1000
         /\ \A i \in 2..Len(db.chunks) :
              LET prev == db.chunks[i - 1].words
                  this == db.chunks[i].words
              IN /\ Len(prev) >= 100 /\ Len(this) >= 100
                 /\ SubSeq(this, 1, 100) = SubSeq(prev, Len(prev) - 99, Len(prev))

\* C25: the chain is sent at most once for a document, also when
\* confirm_upload requests for the same pending document overlap
C25_ChainSentOnce ==
    \A d \in Docs : CopiesIn(PipelineChain(d), queue) <= 1

\* a document id that was handed out and whose row is gone
Deleted(D, d) == d \in 1..issued /\ ~D[d].exists

\* a task of the document is pending or running
ChainInFlight(q, r, d) ==
    \/ \E m \in BagToSet(q) : m.doc = d
    \/ \E e \in BagToSet(r) : e.msg.doc = d

\* C26: a document deleted while its chain is in flight stays deleted: no
\* step of its tasks brings back its row, and once none of its tasks is
\* pending or running the vector index holds no point of it
C26_DeletedStaysDeleted ==
    [][\A d \in Docs :
         (Deleted(docs, d) /\ ChainInFlight(queue, running, d))
           => /\ ~docs'[d].exists
              /\ ~ChainInFlight(queue', running', d)
                   => DocPointsOf(points', d) = EmptyBag]_vars

C28_FailedFullKeepsChunks ==
    \A j2 \in jobs :
      (j2.kind = "full" /\ j2.seq /\ JobDone(j2) /\ ~j2.stored /\ j2.id = Cardinality(jobs))
        => \A j1 \in jobs :
             (j1.id = j2.id - 1 /\ JobDone(j1) /\ j1.stored)
               => \A p \in DOMAIN ProfilePoints(j1.user, j1.gen, j1.id) : BagIn(p, points)


\* C29: a request_upload_url call that answers with an error (a rejected
\* field or a failure to generate the upload handle) creates no Document
\* row: the step that produces such an answer leaves the table as it was
C29_ErrorLeavesNoRow ==
    [][(last'.op = "request_upload_url" /\ last'.code # "201" /\ last' # last)
         => docs' = docs]_vars

====
